---- MODULE Spec2Model ----
(***************************************************************************)
(* A model of the step-function engine of the traces library:             *)
(* traces.TimeSeries (get / set / set_interval / compact / remove /        *)
(* iterperiods / distribution / mean / merge / sum), the merge strategies   *)
(* of experiments/bench_merge_strategies.py and Histogram.mean.            *)
(*                                                                         *)
(* Times are integers.  A Python value is an integer: None is the          *)
(* integer -1, the numbers are 0, 1, ..., and a boolean is the number it   *)
(* equals in Python (False == 0, True == 1).  A merged state is a          *)
(* sequence of such values.                                                *)
(***************************************************************************)
EXTENDS Integers, Sequences, FiniteSets, TLC

VARIABLES ts, pre, call, tsl, mcall, es_open, es_closed, hist, sdict, ecall

vars == <<ts, pre, call, tsl, mcall, es_open, es_closed, hist, sdict, ecall>>

\* the two EventSeries, the Histogram and the traces.sorted_dict.SortedDict
\* of the specifications about them, and the call in progress on them
objectVars == <<es_open, es_closed, hist, sdict, ecall>>

\* the variables a specification of one series leaves alone
mergeVars == <<tsl, mcall, objectVars>>

\* the variables a specification of a list of series leaves alone
seriesVars == <<ts, pre, call, objectVars>>

-----------------------------------------------------------------------------
(* Bounds and domains *)

\* measurement times of the series under its owner's calls are 1..MaxTime
MaxTime == 4

Times == 1..MaxTime

\* query times: one more on each side of the measurement times
QTimes == 0..(MaxTime + 1)

\* the lists that are merged hold at most MaxK series with at most MaxPoints
\* measurements in all, at times 1..MaxMTime
MaxK == 2

MaxPoints == 3

MaxMTime == 2

MTimes == 1..MaxMTime

\* Python's None (no time and no number of the model equals it)
None == 0 - 1

Numbers == {0, 1}

Values == {None} \cup Numbers

\* the defaults of the series of a merged list: none given, or a number
Defaults == {None, 1}

\* the series of distribution and mean: measurements at 1..MaxDTime, masks
\* of at most MaxMaskLen measurements, windows and mask keys in DQTimes
MaxDTime == 2

DTimes == 1..MaxDTime

DQTimes == 0..(MaxDTime + 1)

MaxMaskLen == 1

\* None, zero and a number that weighs in a mean
DValues == {None, 0, 2}

\* the defaults of a mask: TimeSeries(), TimeSeries(default=False) and
\* TimeSeries(default=True)
MaskDefaults == {None, 0, 1}

-----------------------------------------------------------------------------
(* The sorted dictionary under a TimeSeries (sortedcontainers.SortedDict,  *)
(* whose API traces/sorted_dict.py mirrors): a sequence of <<key, value>>  *)
(* pairs in strictly increasing key order.                                 *)

Keys(d) == {d[i][1] : i \in 1..Len(d)}

\* bisect_right taken for bisect_left: a key equal to t is not counted
bisect_right_exclusive(d, t) == Cardinality({i \in 1..Len(d) : d[i][1] < t})

\* d.bisect_right(t): the number of keys <= t (the insertion index that
\* comes after any key equal to t)
bisect_right(d, t) == Cardinality({i \in 1..Len(d) : d[i][1] <= t})

\* d.bisect_left(t): the number of keys < t
bisect_left(d, t) == Cardinality({i \in 1..Len(d) : d[i][1] < t})

\* d.peekitem(index) for a 0-based index >= 0
peekitem(d, index) == d[index + 1]

\* d[key] = value: replace the value of a stored key, or insert the pair at
\* its sorted position
SetItem(d, key, value) ==
    IF key \in Keys(d)
    THEN [i \in 1..Len(d) |-> IF d[i][1] = key THEN <<key, value>> ELSE d[i]]
    ELSE LET n == bisect_left(d, key)
         IN  SubSeq(d, 1, n) \o <<(<<key, value>>)>> \o SubSeq(d, n + 1, Len(d))

\* del d[key] for a stored key
DelItem(d, key) == SelectSeq(d, LAMBDA item : item[1] # key)

\* d.islice(start_index, end_index): the keys at 0-based positions
\* start_index .. end_index - 1
islice(d, start_index, end_index) ==
    [i \in 1..(IF end_index > start_index THEN end_index - start_index ELSE 0)
        |-> d[start_index + i][1]]

\* list(d.irange(minimum, maximum, inclusive=(False, False))): the keys
\* strictly between minimum and maximum, in order
irange_open(d, minimum, maximum) ==
    islice(d, bisect_right(d, minimum), bisect_left(d, maximum))

-----------------------------------------------------------------------------
(* traces.TimeSeries *)

\* TimeSeries(default=default)
TimeSeries(default) == [d |-> <<>>, default |-> default]

\* TimeSeries._get_previous / get(time) / ts[time]
get(s, time) ==
    LET right_index == bisect_right(s.d, time)
        left_index  == right_index - 1
    IN  IF right_index > 0
        THEN peekitem(s.d, left_index)[2]
        ELSE s.default

\* TimeSeries.set storing the value whatever compact says
set_ignoring_compact(s, time, value, compact) ==
    [s EXCEPT !.d = SetItem(s.d, time, value)]

\* TimeSeries.set that never replaces the value of a stored time
set_if_absent(s, time, value, compact) ==
    IF time \in Keys(s.d) THEN s
    ELSE IF (Len(s.d) = 0) \/ (~compact) \/ (compact /\ get(s, time) # value)
    THEN [s EXCEPT !.d = SetItem(s.d, time, value)]
    ELSE s

\* TimeSeries.set without its test for an empty series
set_unless_same_value(s, time, value, compact) ==
    IF (~compact) \/ (compact /\ get(s, time) # value)
    THEN [s EXCEPT !.d = SetItem(s.d, time, value)]
    ELSE s

\* TimeSeries.set(time, value, compact)
set(s, time, value, compact) ==
    IF (Len(s.d) = 0) \/ (~compact) \/ (compact /\ get(s, time) # value)
    THEN [s EXCEPT !.d = SetItem(s.d, time, value)]
    ELSE s

\* TimeSeries.__eq__ comparing the defaults as well as the items
eq_with_default(s, other) == s.d = other.d /\ s.default = other.default

\* TimeSeries.__eq__(other) / self == other: self.items() == other.items()
eq(s, other) == s.d = other.d

\* TimeSeries.remove(time) for a stored time
remove(s, time) == [s EXCEPT !.d = DelItem(s.d, time)]

\* the deletion loop of set_interval: del self[t] for each t of the list
RECURSIVE remove_all(_, _)
remove_all(s, times) ==
    IF times = <<>> THEN s
    ELSE remove_all(remove(s, Head(times)), Tail(times))

\* set_interval that does not set the end point back to its old value
set_interval_open_end(s, start, end, value, compact) ==
    set(remove_all(s, irange_open(s.d, start, end)), start, value, compact)

\* TimeSeries.set_interval(start, end, value, compact) for start < end
set_interval(s, start, end, value, compact) ==
    LET end_value == get(s, end)
        cleared   == remove_all(s, irange_open(s.d, start, end))
        s1        == set(cleared, start, value, compact)
    IN  set(s1, end, end_value, compact)

\* the first loop of compact comparing each item with the next one
redundant_before_equal(d) ==
    SelectSeq([i \in 1..Len(d) |-> IF i < Len(d) /\ d[i][2] = d[i + 1][2]
                                     THEN d[i][1] ELSE None],
              LAMBDA t : t # None)

\* the first loop of compact: the times whose value equals the previous
\* item's value (previous_value starts as a fresh object, equal to nothing)
redundant(d) ==
    SelectSeq([i \in 1..Len(d) |-> IF i > 1 /\ d[i][2] = d[i - 1][2]
                                     THEN d[i][1] ELSE None],
              LAMBDA t : t # None)

\* TimeSeries.compact()
compact(s) == remove_all(s, redundant(s.d))

\* the body of a loop `for t, v in pairs: result[t] = v`
RECURSIVE set_all(_, _)
set_all(s, pairs) ==
    IF pairs = <<>> THEN s
    ELSE set_all(set(s, Head(pairs)[1], Head(pairs)[2], FALSE), Tail(pairs))

\* bool(x) of a number, a boolean or None
Truthy(x) == x # None /\ x # 0

\* Python's `x and y`: x when x is falsy, else y
PyAnd(x, y) == IF Truthy(x) THEN y ELSE x

\* Python's `x or y`: x when x is truthy, else y
PyOr(x, y) == IF Truthy(x) THEN x ELSE y

\* Python's `bool(x) ^ bool(y)`
PyXor(x, y) == IF Truthy(x) # Truthy(y) THEN 1 ELSE 0

\* the binary functions that operation is called with, each named by the
\* method that passes it
Functions == {"logical_and", "logical_or", "logical_xor"}

\* function(x, y)
apply(function, x, y) ==
    CASE function = "logical_and" -> PyAnd(x, y)
      [] function = "logical_or"  -> PyOr(x, y)
      [] function = "logical_xor" -> PyXor(x, y)
      [] function = "difference"  -> x - y

\* an argument `other` that is a constant and not a TimeSeries
Scalar(x) == [scalar |-> x]

\* isinstance(other, TimeSeries)
IsTimeSeries(other) == "d" \in DOMAIN other

\* TimeSeries.operation without its loop over other's items
operation_own_keys(s, other, function, default) ==
    set_all(TimeSeries(default),
            [i \in 1..Len(s.d) |->
                <<s.d[i][1],
                  apply(function, s.d[i][2],
                        IF IsTimeSeries(other) THEN get(other, s.d[i][1])
                        ELSE other.scalar)>>])

\* TimeSeries.operation(other, function, default).  For a TimeSeries other:
\* first the loop over self's items, then the loop over other's items; for
\* a constant: the loop over self's items
operation(s, other, function, default) ==
    IF IsTimeSeries(other)
    THEN LET own   == [i \in 1..Len(s.d) |->
                         <<s.d[i][1],
                           apply(function, s.d[i][2], get(other, s.d[i][1]))>>]
             their == [i \in 1..Len(other.d) |->
                         <<other.d[i][1],
                           apply(function, get(s, other.d[i][1]),
                                 other.d[i][2])>>]
         IN  set_all(TimeSeries(default), own \o their)
    ELSE set_all(TimeSeries(default),
                 [i \in 1..Len(s.d) |->
                     <<s.d[i][1], apply(function, s.d[i][2], other.scalar)>>])

\* TimeSeries.logical_and(other) / self & other
logical_and(s, other) == operation(s, other, "logical_and", None)

first_key(s) == peekitem(s.d, 0)[1]

last_key(s) == peekitem(s.d, Len(s.d) - 1)[1]

\* an argument mask=None
NoMask == [absent |-> TRUE]

\* TimeSeries._check_boundary(value, allow_infinite=False, lower_or_upper):
\* an absent boundary (None) is the first or last key, KeyError when the
\* series is empty
check_boundary(s, value, lower_or_upper) ==
    IF value = None
    THEN IF Len(s.d) = 0
         THEN [error |-> "KeyError", value |-> None]
         ELSE [error |-> "none",
               value |-> IF lower_or_upper = "lower" THEN first_key(s)
                                                     ELSE last_key(s)]
    ELSE [error |-> "none", value |-> value]

\* TimeSeries._check_boundaries without its test of start >= end
check_boundaries_any_order(s, start, end, mask) ==
    IF mask # NoMask /\ Len(mask.d) = 0
    THEN [error |-> "ValueError"]
    ELSE IF start = None /\ end = None /\ mask # NoMask
    THEN [error |-> "none", start |-> first_key(mask), end |-> last_key(mask),
          mask |-> mask]
    ELSE LET lo == check_boundary(s, start, "lower")
             hi == check_boundary(s, end, "upper")
         IN  IF lo.error # "none" \/ hi.error # "none"
             THEN [error |-> "KeyError"]
             ELSE LET start_end_mask ==
                          set(set(TimeSeries(0), lo.value, 1, FALSE),
                              hi.value, 0, FALSE)
                  IN  [error |-> "none", start |-> lo.value, end |-> hi.value,
                       mask |-> IF mask = NoMask THEN start_end_mask
                                ELSE logical_and(mask, start_end_mask)]

\* TimeSeries._check_boundaries(start, end, mask, allow_infinite=False):
\* the resolved (start, end, mask) or the exception raised
check_boundaries(s, start, end, mask) ==
    IF mask # NoMask /\ Len(mask.d) = 0
    THEN [error |-> "ValueError"]
    ELSE IF start = None /\ end = None /\ mask # NoMask
    THEN [error |-> "none", start |-> first_key(mask), end |-> last_key(mask),
          mask |-> mask]
    ELSE LET lo == check_boundary(s, start, "lower")
             hi == check_boundary(s, end, "upper")
         IN  IF lo.error # "none" \/ hi.error # "none"
             THEN [error |-> "KeyError"]
             ELSE IF lo.value >= hi.value
             THEN [error |-> "ValueError"]
             ELSE LET start_end_mask ==
                          set(set(TimeSeries(0), lo.value, 1, FALSE),
                              hi.value, 0, FALSE)
                  IN  [error |-> "none", start |-> lo.value, end |-> hi.value,
                       mask |-> IF mask = NoMask THEN start_end_mask
                                ELSE logical_and(mask, start_end_mask)]

\* TimeSeries._value_function(value) applied to a period: no filter for
\* None, else the periods whose value equals the constant
value_function(value, t0, t1, v) == IF value = None THEN TRUE ELSE v = value

\* the for loop of iterperiods over the keys of islice(start_index,
\* end_index); acc holds the periods yielded so far and the loop variables
\* interval_t0 and interval_value
RECURSIVE iterperiods_loop(_, _, _, _)
iterperiods_loop(s, keys, value, acc) ==
    IF keys = <<>> THEN acc
    ELSE LET interval_t1 == Head(keys)
         IN  iterperiods_loop(s, Tail(keys), value,
                 [out |-> IF value_function(value, acc.t0, interval_t1, acc.v)
                          THEN Append(acc.out, <<acc.t0, interval_t1, acc.v>>)
                          ELSE acc.out,
                  t0  |-> interval_t1,
                  v   |-> get(s, interval_t1)])

\* iterperiods without its final period (from the last key to end)
periods_between_keys(s, start, end, value) ==
    LET start_index == bisect_right(s.d, start)
        start_value == IF start_index # 0
                       THEN peekitem(s.d, start_index - 1)[2]
                       ELSE s.default
        end_index   == bisect_right(s.d, end)
    IN  iterperiods_loop(s, islice(s.d, start_index, end_index), value,
            [out |-> <<>>, t0 |-> start, v |-> start_value]).out

\* the periods yielded by iterperiods between resolved boundaries
periods_between(s, start, end, value) ==
    LET start_index == bisect_right(s.d, start)
        start_value == IF start_index # 0
                       THEN peekitem(s.d, start_index - 1)[2]
                       ELSE s.default
        end_index   == bisect_right(s.d, end)
        last        == iterperiods_loop(s, islice(s.d, start_index, end_index),
                           value, [out |-> <<>>, t0 |-> start, v |-> start_value])
    IN  IF last.t0 < end /\ value_function(value, last.t0, end, last.v)
        THEN Append(last.out, <<last.t0, end, last.v>>)
        ELSE last.out

\* list(TimeSeries.iterperiods(start, end, value)): the periods yielded, or
\* the exception raised by the boundary check
iterperiods(s, start, end, value) ==
    LET b == check_boundaries(s, start, end, NoMask)
    IN  IF b.error # "none"
        THEN [error |-> b.error, periods |-> <<>>]
        ELSE [error |-> "none",
              periods |-> periods_between(s, b.start, b.end, value)]

\* TimeSeries.remove_points_from_interval(start, end) / del ts[start:end]:
\* the loop `for s, _e, _v in self.iterperiods(start, end): del self._d[s]`
\* (a KeyError suppressed), run step by step: the generator iterperiods
\* is suspended at each yield while the deletion happens.  The iterator of
\* islice(start_index, end_index) holds the positions start_index ..
\* end_index - 1, fixed when the loop starts.  With live it reads the key
\* list of the dictionary by position at each step, as the iterator of
\* sortedcontainers.SortedDict (imported by timeseries.py) does, and raises
\* IndexError at a position past the end; without live it reads a copy of
\* the keys made when the loop starts, as traces/sorted_dict.py does.
\* acc holds the series, interval_t0, interval_value and the error.
RECURSIVE remove_points_loop(_, _, _, _, _)
remove_points_loop(acc, keys, index, end_index, live) ==
    IF index >= end_index \/ acc.error # "none" THEN acc
    ELSE IF live /\ index >= Len(acc.s.d)
    THEN [acc EXCEPT !.error = "IndexError"]
    ELSE LET interval_t1 == IF live THEN peekitem(acc.s.d, index)[1]
                            ELSE keys[index + 1]
             deleted     == IF acc.t0 \in Keys(acc.s.d)
                            THEN remove(acc.s, acc.t0) ELSE acc.s
         IN  remove_points_loop(
                 [s |-> deleted, t0 |-> interval_t1,
                  v |-> get(deleted, interval_t1), error |-> "none"],
                 keys, index + 1, end_index, live)

\* the series after the call and the exception raised, if any
remove_points_from_interval(s, start, end, live) ==
    LET b == check_boundaries(s, start, end, NoMask)
    IN  IF b.error # "none" THEN [error |-> b.error, s |-> s]
        ELSE LET start_index == bisect_right(s.d, b.start)
                 start_value == IF start_index # 0
                                THEN peekitem(s.d, start_index - 1)[2]
                                ELSE s.default
                 end_index   == bisect_right(s.d, b.end)
                 keys        == [i \in 1..Len(s.d) |-> s.d[i][1]]
                 last        == remove_points_loop(
                                    [s |-> s, t0 |-> b.start, v |-> start_value,
                                     error |-> "none"],
                                    keys, start_index, end_index, live)
             IN  IF last.error # "none"
                 THEN [error |-> last.error, s |-> last.s]
                 ELSE IF last.t0 < b.end /\ last.t0 \in Keys(last.s.d)
                 THEN [error |-> "none", s |-> remove(last.s, last.t0)]
                 ELSE [error |-> "none", s |-> last.s]

-----------------------------------------------------------------------------
(* The merge engine: TimeSeries._iter_merge / iter_merge / merge / sum and  *)
(* the strategies of experiments/bench_merge_strategies.py.  A series of    *)
(* the list is named by its position 1..K (Python's index + 1).             *)

\* [ts.default for ts in timeseries_list]
defaults(timeseries_list) ==
    [i \in 1..Len(timeseries_list) |-> timeseries_list[i].default]

\* the first (t, index, value, iterator) entries put on the queue: one for
\* each series that is not empty.  An entry is <<t, index, position>>: the
\* iterator is the position of its last item, which holds the value
first_entries(timeseries_list) ==
    {<<timeseries_list[i].d[1][1], i, 1>> :
        i \in {j \in 1..Len(timeseries_list) : Len(timeseries_list[j].d) > 0}}

\* queue.get() / heapq.heappop(heap): the least entry, by time and then by
\* index (no two entries share an index)
least_entry(queue) ==
    CHOOSE e \in queue :
        \A f \in queue : e[1] < f[1] \/ (e[1] = f[1] /\ e[2] <= f[2])

\* next(iterator) and queue.put: the entry of the next item of the series
\* the entry came from, nothing when the iterator is exhausted
next_entries(timeseries_list, e) ==
    IF e[3] < Len(timeseries_list[e[2]].d)
    THEN {<<timeseries_list[e[2]].d[e[3] + 1][1], e[2], e[3] + 1>>}
    ELSE {}

\* the while loop of _iter_merge: out is the (t, state) pairs yielded so far
RECURSIVE iter_merge_loop(_, _, _, _)
iter_merge_loop(timeseries_list, queue, state, out) ==
    IF queue = {} THEN out
    ELSE LET e          == least_entry(queue)
             next_value == timeseries_list[e[2]].d[e[3]][2]
             state1     == [state EXCEPT ![e[2]] = next_value]
         IN  iter_merge_loop(timeseries_list,
                 (queue \ {e}) \cup next_entries(timeseries_list, e),
                 state1, Append(out, <<e[1], state1>>))

\* list(TimeSeries._iter_merge(timeseries_list))
raw_iter_merge(timeseries_list) ==
    iter_merge_loop(timeseries_list, first_entries(timeseries_list),
                    defaults(timeseries_list), <<>>)

\* the for loop of iter_merge over the pairs of _iter_merge: yield the
\* previous pair when the time changes
RECURSIVE dedup_loop(_, _, _)
dedup_loop(pairs, index, out) ==
    IF index > Len(pairs) THEN out
    ELSE dedup_loop(pairs, index + 1,
             IF index > 1 /\ pairs[index][1] # pairs[index - 1][1]
             THEN Append(out, pairs[index - 1])
             ELSE out)

\* iter_merge without the handling of tied times: every pair of _iter_merge
iter_merge_every_pair(timeseries_list) ==
    IF Len(timeseries_list) = 0 THEN <<>>
    ELSE iter_merge_loop(timeseries_list, first_entries(timeseries_list),
                         defaults(timeseries_list), <<>>)

\* list(TimeSeries.iter_merge(timeseries_list))
iter_merge(timeseries_list) ==
    IF Len(timeseries_list) = 0 THEN <<>>
    ELSE LET pairs == raw_iter_merge(timeseries_list)
             out   == dedup_loop(pairs, 1, <<>>)
         IN  IF Len(pairs) > 0 THEN Append(out, pairs[Len(pairs)]) ELSE out

\* sum(iterable) of numbers
RECURSIVE py_sum(_)
py_sum(values) ==
    IF values = <<>> THEN 0 ELSE Head(values) + py_sum(Tail(values))

\* decorators.ignorant applied to sum: the None values are filtered out
ignorant_sum(values) == py_sum(SelectSeq(values, LAMBDA v : v # None))

\* decorators.strict applied to sum: None when a value is None
strict_sum(values) ==
    IF \E i \in 1..Len(values) : values[i] = None THEN None
    ELSE py_sum(values)

\* the operation argument of merge: "none" is operation=None
Operations == {"none", "ignorant_sum", "strict_sum"}

\* operation(values) for an operation that is given
apply_operation(op, values) ==
    CASE op = "ignorant_sum" -> ignorant_sum(values)
      [] op = "strict_sum"   -> strict_sum(values)

\* merge_loop that always sets with compact=True
RECURSIVE merge_loop_compacting(_, _, _, _)
merge_loop_compacting(result, pairs, compact_, op) ==
    IF pairs = <<>> THEN result
    ELSE LET merged == Head(pairs)[2]
             value  == IF op = "none" THEN merged
                       ELSE apply_operation(op, merged)
         IN  merge_loop_compacting(set(result, Head(pairs)[1], value, TRUE),
                                   Tail(pairs), compact_, op)

\* merge_loop that always sets with compact=False
RECURSIVE merge_loop_plain(_, _, _, _)
merge_loop_plain(result, pairs, compact_, op) ==
    IF pairs = <<>> THEN result
    ELSE LET merged == Head(pairs)[2]
             value  == IF op = "none" THEN merged
                       ELSE apply_operation(op, merged)
         IN  merge_loop_plain(set(result, Head(pairs)[1], value, FALSE),
                              Tail(pairs), compact_, op)

\* the loop of merge: result.set(t, value, compact=compact) for each pair
RECURSIVE merge_loop(_, _, _, _)
merge_loop(result, pairs, compact_, op) ==
    IF pairs = <<>> THEN result
    ELSE LET merged == Head(pairs)[2]
             value  == IF op = "none" THEN merged
                       ELSE apply_operation(op, merged)
         IN  merge_loop(set(result, Head(pairs)[1], value, compact_),
                        Tail(pairs), compact_, op)

\* merge whose result keeps the default of TimeSeries(), None
merge_default_none(ts_list, compact_, op) ==
    merge_loop(TimeSeries(None), iter_merge(ts_list), compact_, op)

\* TimeSeries.merge(ts_list, compact, operation)
merge(ts_list, compact_, op) ==
    LET default == IF op # "none"
                   THEN apply_operation(op, defaults(ts_list))
                   ELSE defaults(ts_list)
    IN  merge_loop(TimeSeries(default), iter_merge(ts_list), compact_, op)

\* sum with the strict reducer: None where either value is None
sum_strict(s, other) == merge(<<s, other>>, TRUE, "strict_sum")

\* TimeSeries.sum(other) / self + other
sum(s, other) == merge(<<s, other>>, TRUE, "ignorant_sum")

\* sorted(all_times): the times of a set in increasing order
RECURSIVE sorted(_)
sorted(times) ==
    IF times = {} THEN <<>>
    ELSE LET least == CHOOSE t \in times : \A u \in times : t <= u
         IN  <<least>> \o sorted(times \ {least})

\* list(naive_iter_merge(timeseries_list))
naive_iter_merge(timeseries_list) ==
    IF Len(timeseries_list) = 0 THEN <<>>
    ELSE LET all_times == UNION {Keys(timeseries_list[i].d) :
                                    i \in 1..Len(timeseries_list)}
             times     == sorted(all_times)
         IN  [n \in 1..Len(times) |->
                <<times[n], [i \in 1..Len(timeseries_list) |->
                                get(timeseries_list[i], times[n])]>>]

\* the while loop of heapq_iter_merge_transitions: out is the
\* (t, index, previous_value, next_value) transitions yielded so far
RECURSIVE transitions_loop(_, _, _, _)
transitions_loop(timeseries_list, heap, state, out) ==
    IF heap = {} THEN out
    ELSE LET e              == least_entry(heap)
             next_value     == timeseries_list[e[2]].d[e[3]][2]
             previous_value == state[e[2]]
         IN  transitions_loop(timeseries_list,
                 (heap \ {e}) \cup next_entries(timeseries_list, e),
                 [state EXCEPT ![e[2]] = next_value],
                 Append(out, <<e[1], e[2], previous_value, next_value>>))

\* list(heapq_iter_merge_transitions(timeseries_list))
heapq_iter_merge_transitions(timeseries_list) ==
    transitions_loop(timeseries_list, first_entries(timeseries_list),
                     defaults(timeseries_list), <<>>)

\* heapq_loop that applies a transition before it yields the previous time:
\* the state yielded for a time already holds the first update of the next
RECURSIVE heapq_loop_update_first(_, _, _)
heapq_loop_update_first(transitions, n, acc) ==
    IF n > Len(transitions) THEN acc
    ELSE LET tr     == transitions[n]
             state1 == [acc.state EXCEPT ![tr[2]] = tr[4]]
         IN  heapq_loop_update_first(transitions, n + 1,
                 [out   |-> IF n > 1 /\ tr[1] # transitions[n - 1][1]
                            THEN Append(acc.out,
                                        <<transitions[n - 1][1], state1>>)
                            ELSE acc.out,
                  state |-> state1])

\* the for loop of heapq_iter_merge over the transitions: acc holds the
\* pairs yielded so far and the running state
RECURSIVE heapq_loop(_, _, _)
heapq_loop(transitions, n, acc) ==
    IF n > Len(transitions) THEN acc
    ELSE LET tr == transitions[n]
         IN  heapq_loop(transitions, n + 1,
                 [out   |-> IF n > 1 /\ tr[1] # transitions[n - 1][1]
                            THEN Append(acc.out,
                                        <<transitions[n - 1][1], acc.state>>)
                            ELSE acc.out,
                  state |-> [acc.state EXCEPT ![tr[2]] = tr[4]]])

\* list(heapq_iter_merge(timeseries_list))
heapq_iter_merge(timeseries_list) ==
    IF Len(timeseries_list) = 0 THEN <<>>
    ELSE LET transitions == heapq_iter_merge_transitions(timeseries_list)
             last == heapq_loop(transitions, 1,
                         [out |-> <<>>, state |-> defaults(timeseries_list)])
         IN  IF Len(transitions) > 0
             THEN Append(last.out,
                         <<transitions[Len(transitions)][1], last.state>>)
             ELSE last.out

-----------------------------------------------------------------------------
(* traces.Histogram, TimeSeries.distribution and TimeSeries.mean.  A        *)
(* Histogram is a function from its keys to their weights; the order of     *)
(* its keys (by value, or by hash once None meets a number) plays no part   *)
(* in the weights or in the mean.  A float is the exact fraction            *)
(* [n |-> numerator, d |-> denominator].                                    *)

\* Histogram(): no keys
Histogram == [k \in {} |-> 0]

\* Histogram.__getitem__(key): the weight of the key, 0 for a missing key
hist_get(h, key) == IF key \in DOMAIN h THEN h[key] ELSE 0

\* utils.time_midpoint(t0, t1) of a period t0 < t1: a time inside the
\* period (times being integers, the midpoint rounded down)
time_midpoint(t0, t1) == (t0 + t1) \div 2

\* utils.duration_to_number(t1 - t0) for numeric times
duration_to_number(duration) == duration

\* the inner loop of distribution with each period counted once, whatever
\* its duration
RECURSIVE count_periods_unweighted(_, _, _)
count_periods_unweighted(s, periods, counter) ==
    IF periods = <<>> THEN counter
    ELSE LET value == get(s, Head(periods)[1])
         IN  count_periods_unweighted(s, Tail(periods),
                 [k \in DOMAIN counter \cup {value} |->
                     hist_get(counter, k) + (IF k = value THEN 1 ELSE 0)])

\* the inner loop of distribution over the periods of self within one
\* period of the mask: counter[self.get(midpoint)] += duration
RECURSIVE count_periods(_, _, _)
count_periods(s, periods, counter) ==
    IF periods = <<>> THEN counter
    ELSE LET t0       == Head(periods)[1]
             t1       == Head(periods)[2]
             duration == duration_to_number(t1 - t0)
             value    == get(s, time_midpoint(t0, t1))
         IN  count_periods(s, Tail(periods),
                 [k \in DOMAIN counter \cup {value} |->
                     hist_get(counter, k) + (IF k = value THEN duration ELSE 0)])

\* the outer loop of distribution over mask.iterperiods(value=True)
RECURSIVE distribution_loop(_, _, _)
distribution_loop(s, mask_periods, counter) ==
    IF mask_periods = <<>> THEN counter
    ELSE LET i_start == Head(mask_periods)[1]
             i_end   == Head(mask_periods)[2]
         IN  distribution_loop(s, Tail(mask_periods),
                 count_periods(s, iterperiods(s, i_start, i_end, None).periods,
                               counter))

\* the sum of the weights of the given keys
RECURSIVE sum_weights(_, _)
sum_weights(h, keys) ==
    IF keys = {} THEN 0
    ELSE LET k == CHOOSE x \in keys : TRUE
         IN  h[k] + sum_weights(h, keys \ {k})

\* Histogram.total() of integer weights
total(h) == sum_weights(h, DOMAIN h)

\* Histogram.normalized(): every weight divided by float(total)
normalized(h) == [k \in DOMAIN h |-> [n |-> h[k], d |-> total(h)]]

\* TimeSeries.distribution(start, end, normalized, mask) with the
\* 'previous' interpolation: the Histogram, or the exception raised by the
\* boundary check of the call or, at the start of the loop, by that of
\* mask.iterperiods(value=True)
distribution(s, start, end, normalized_, mask) ==
    LET b == check_boundaries(s, start, end, mask)
    IN  IF b.error # "none"
        THEN [error |-> b.error, hist |-> Histogram]
        ELSE LET mask_periods == iterperiods(b.mask, None, None, 1)
                 counter == distribution_loop(s, mask_periods.periods,
                                              Histogram)
             IN  IF mask_periods.error # "none"
                 THEN [error |-> mask_periods.error, hist |-> Histogram]
                 ELSE [error |-> "none",
                       hist  |-> IF normalized_ THEN normalized(counter)
                                 ELSE counter]

\* x + y and x / y of floats
float_add(x, y) == [n |-> x.n * y.d + y.n * x.d, d |-> x.d * y.d]

float_div(x, y) == [n |-> x.n * y.d, d |-> x.d * y.n]

\* Histogram._discard_value(value) leaving every key in place
discard_nothing(h, value) == h

\* Histogram._discard_value(value): the histogram without that key
discard_value(h, value) ==
    IF value \notin DOMAIN h THEN h
    ELSE [k \in DOMAIN h \ {value} |-> h[k]]

\* sum(values) of floats, over the given keys
RECURSIVE float_total(_, _)
float_total(h, keys) ==
    IF keys = {} THEN [n |-> 0, d |-> 1]
    ELSE LET k == CHOOSE x \in keys : TRUE
         IN  float_add(h[k], float_total(h, keys \ {k}))

\* sum(key * value for key, value in clean.items())
RECURSIVE weighted_sum(_, _)
weighted_sum(h, keys) ==
    IF keys = {} THEN [n |-> 0, d |-> 1]
    ELSE LET k == CHOOSE x \in keys : TRUE
         IN  float_add([n |-> k * h[k].n, d |-> h[k].d],
                       weighted_sum(h, keys \ {k}))

\* the result None of a mean
NoMean == [none |-> TRUE]

\* Histogram.mean(): None when the weights without the key None sum to
\* zero, else weighted_sum / total
histogram_mean(h) ==
    LET clean  == discard_value(h, None)
        total_ == float_total(clean, DOMAIN clean)
    IN  IF total_.n = 0 THEN NoMean
        ELSE float_div(weighted_sum(clean, DOMAIN clean), total_)

\* TimeSeries.mean(start, end, mask): distribution(...).mean(), the
\* distribution being normalized
mean(s, start, end, mask) ==
    LET dist == distribution(s, start, end, TRUE, mask)
    IN  IF dist.error # "none"
        THEN [error |-> dist.error, value |-> NoMean]
        ELSE [error |-> "none", value |-> histogram_mean(dist.hist)]

-----------------------------------------------------------------------------
(* TimeSeries.slice and TimeSeries.sample *)

\* TimeSeries.slice with the loop over the periods alone
slice_without_end(s, start, end) ==
    LET b == check_boundaries(s, start, end, NoMask)
    IN  IF b.error # "none"
        THEN [error |-> b.error, result |-> TimeSeries(s.default)]
        ELSE LET periods == iterperiods(s, b.start, b.end, None).periods
             IN  [error  |-> "none",
                  result |-> set_all(TimeSeries(s.default),
                                 [i \in 1..Len(periods) |->
                                     <<periods[i][1], periods[i][3]>>])]

\* TimeSeries.slice(start, end) for given start and end: a measurement at
\* the start of every period of [start, end], then one at the end of the
\* last period
slice(s, start, end) ==
    LET b == check_boundaries(s, start, end, NoMask)
    IN  IF b.error # "none"
        THEN [error |-> b.error, result |-> TimeSeries(s.default)]
        ELSE LET periods == iterperiods(s, b.start, b.end, None).periods
                 t1      == periods[Len(periods)][2]
                 result  == set_all(TimeSeries(s.default),
                                [i \in 1..Len(periods) |->
                                    <<periods[i][1], periods[i][3]>>])
             IN  [error  |-> "none",
                  result |-> set(result, t1, get(s, t1), FALSE)]

\* TimeSeries._check_regularization(start, end, sampling_period) for a
\* numeric sampling period: the exception raised, if any
check_regularization(start, end, sampling_period) ==
    IF sampling_period <= 0 THEN "ValueError"
    ELSE IF sampling_period > duration_to_number(end - start) THEN "ValueError"
    ELSE "none"

\* the while loop of sample within one period of the mask
RECURSIVE sample_while(_, _, _, _, _)
sample_while(s, current_time, end, sampling_period, result) ==
    IF current_time <= end
    THEN sample_while(s, current_time + sampling_period, end, sampling_period,
                      Append(result, <<current_time, get(s, current_time)>>))
    ELSE result

\* the while loop of sample stopping before the end of the period
RECURSIVE sample_for_open_end(_, _, _, _)
sample_for_open_end(s, mask_periods, sampling_period, result) ==
    IF mask_periods = <<>> THEN result
    ELSE sample_for_open_end(s, Tail(mask_periods), sampling_period,
             sample_while(s, Head(mask_periods)[1], Head(mask_periods)[2] - 1,
                          sampling_period, result))

\* the for loop of sample over mask.iterperiods(value=True)
RECURSIVE sample_for(_, _, _, _)
sample_for(s, mask_periods, sampling_period, result) ==
    IF mask_periods = <<>> THEN result
    ELSE sample_for(s, Tail(mask_periods), sampling_period,
             sample_while(s, Head(mask_periods)[1], Head(mask_periods)[2],
                          sampling_period, result))

\* TimeSeries.sample(sampling_period, start, end, mask=mask) with the
\* 'previous' interpolation.  The boundary check is called without the
\* mask, and the mask it returns replaces the argument.
sample(s, sampling_period, start, end, mask) ==
    LET b == check_boundaries(s, start, end, NoMask)
    IN  IF b.error # "none" THEN [error |-> b.error, result |-> <<>>]
        ELSE IF check_regularization(b.start, b.end, sampling_period) # "none"
        THEN [error  |-> check_regularization(b.start, b.end, sampling_period),
              result |-> <<>>]
        ELSE [error  |-> "none",
              result |-> sample_for(s,
                             iterperiods(b.mask, None, None, 1).periods,
                             sampling_period, <<>>)]

-----------------------------------------------------------------------------
(* TimeSeries.sample_interval(sampling_period, start, end, operation) for   *)
(* the operations "max" and "min", with pandas' index as a sequence of      *)
(* times: idx[i + 1] here is idx[i] there.                                  *)

\* pd.date_range(start, end, freq=sampling_period, inclusive="both")
date_range(start, end, sampling_period) ==
    [k \in 1..((end - start) \div sampling_period + 1) |->
        start + (k - 1) * sampling_period]

\* items_in_horizon(): (start, self[start]), the items strictly between
\* start and end, (end, self[end])
items_in_horizon(s, start, end) ==
    <<<<start, get(s, start)>>>>
    \o SelectSeq(s.d, LAMBDA item : start < item[1] /\ item[1] < end)
    \o <<<<end, get(s, end)>>>>

\* idx.get_indexer([t], method="ffill"): the position (from 0) of the last
\* index entry <= t
get_indexer_ffill(idx, t) ==
    Cardinality({k \in 1..Len(idx) : idx[k] <= t}) - 1

\* Python's max(a, b) and min(a, b) of numbers
py_max(a, b) == IF b > a THEN b ELSE a

py_min(a, b) == IF b < a THEN b ELSE a

\* update(agg, t0, t1, v) of the operation
update(op, agg, v) ==
    CASE op = "max" -> py_max(agg, v)
      [] op = "min" -> py_min(agg, v)

\* the for loop of sample_interval over the inflexion points; acc holds
\* i0, t0, v0, agg, the records appended to result and whether the loop
\* has met its break.  init(t, v) is v and finish(agg, ...) is agg.
RECURSIVE sample_interval_loop(_, _, _, _)
sample_interval_loop(idx, inflexions, op, acc) ==
    IF inflexions = <<>> \/ acc.done THEN acc
    ELSE LET t1  == Head(inflexions)[1]
             v1  == Head(inflexions)[2]
             i1  == get_indexer_ffill(idx, t1)
             Np1 == Len(idx) - 1
         IN  IF acc.i0 # i1
             THEN LET closed  == update(op, acc.agg, acc.v0)
                      result1 == Append(acc.result, <<acc.i0, closed>>)
                      result2 == IF i1 # acc.i0 + 1
                                 THEN Append(result1, <<acc.i0 + 1, acc.v0>>)
                                 ELSE result1
                  IN  IF i1 = Np1
                      THEN [acc EXCEPT !.result = result2, !.done = TRUE]
                      ELSE sample_interval_loop(idx, Tail(inflexions), op,
                               [i0 |-> i1, t0 |-> t1, v0 |-> v1,
                                agg |-> update(op, acc.v0, acc.v0),
                                result |-> result2, done |-> FALSE])
             ELSE sample_interval_loop(idx, Tail(inflexions), op,
                      [i0 |-> i1, t0 |-> t1, v0 |-> v1,
                       agg |-> update(op, acc.agg, acc.v0),
                       result |-> acc.result, done |-> FALSE])

\* DataFrame.from_records(result).set_index(0).iloc[:, 0]
\*     .reindex(idx[:-1]).ffill(): for every interval, the record of the
\* last interval at or before it that has one
reindex_ffill(idx, records) ==
    [k \in 1..(Len(idx) - 1) |->
        LET at == {j \in 1..Len(records) : records[j][1] <= k - 1}
            j  == CHOOSE x \in at : \A y \in at : records[y][1] <= records[x][1]
        IN  <<idx[k], records[j][2]>>]

\* TimeSeries.sample_interval(sampling_period, start, end,
\* operation=op): the (interval start, value) pairs of the returned
\* pandas Series, or the exception raised
sample_interval(s, sampling_period, start, end, op) ==
    LET b == check_boundaries(s, start, end, NoMask)
    IN  IF b.error # "none" THEN [error |-> b.error, result |-> <<>>]
        ELSE IF check_regularization(b.start, b.end, sampling_period) # "none"
        THEN [error  |-> check_regularization(b.start, b.end, sampling_period),
              result |-> <<>>]
        ELSE LET idx  == date_range(b.start, b.end, sampling_period)
                 v0   == get(s, b.start)
                 last == sample_interval_loop(idx,
                             items_in_horizon(s, b.start, b.end), op,
                             [i0 |-> 0, t0 |-> idx[1], v0 |-> v0, agg |-> v0,
                              result |-> <<>>, done |-> FALSE])
             IN  [error  |-> "none",
                  result |-> reindex_ffill(idx, last.result)]

-----------------------------------------------------------------------------
(* traces.EventSeries: a sortedcontainers.SortedList of event times, here   *)
(* a sorted sequence that may hold a time more than once                    *)

\* the events are at times 1..MaxETime, at most MaxEvents in a series
MaxETime == 3

MaxEvents == 3

ETimes == 1..MaxETime

EQTimes == 0..(MaxETime + 1)

\* SortedList.add(value): the value goes after the values equal to it
add(es, t) ==
    LET n == Cardinality({i \in 1..Len(es) : es[i] <= t})
    IN  SubSeq(es, 1, n) \o <<t>> \o SubSeq(es, n + 1, Len(es))

\* itertools.groupby(self), each group as <<t, len(list(event_group))>>
RECURSIVE groupby(_, _)
groupby(es, acc) ==
    IF es = <<>> THEN acc
    ELSE IF acc # <<>> /\ acc[Len(acc)][1] = Head(es)
    THEN groupby(Tail(es), [acc EXCEPT ![Len(acc)][2] = @ + 1])
    ELSE groupby(Tail(es), Append(acc, <<Head(es), 1>>))

\* the loop of cumulative_sum adding one for a group whatever its length
RECURSIVE cumulative_sum_loop_per_group(_, _, _)
cumulative_sum_loop_per_group(s, groups, running_total) ==
    IF groups = <<>> THEN s
    ELSE cumulative_sum_loop_per_group(
             set(s, Head(groups)[1], running_total + 1, FALSE),
             Tail(groups), running_total + 1)

\* the loop of cumulative_sum: running_total += len(list(event_group));
\* ts[t] = running_total
RECURSIVE cumulative_sum_loop(_, _, _)
cumulative_sum_loop(s, groups, running_total) ==
    IF groups = <<>> THEN s
    ELSE cumulative_sum_loop(
             set(s, Head(groups)[1], running_total + Head(groups)[2], FALSE),
             Tail(groups), running_total + Head(groups)[2])

\* EventSeries.cumulative_sum() / cumsum()
cumulative_sum(es) == cumulative_sum_loop(TimeSeries(0), groupby(es, <<>>), 0)

\* TimeSeries.difference(other) / self - other
difference(s, other) == operation(s, other, "difference", None)

\* EventSeries.count_active(es_open, es_closed)
count_active(opens, closes) ==
    difference(cumulative_sum(opens), cumulative_sum(closes))

-----------------------------------------------------------------------------
(* traces.Histogram as the sorted dictionary it is: the sequence of its     *)
(* <<key, weight>> items in the order of its key function.  Its keys are    *)
(* None and small integers, its weights integers; a float is the exact      *)
(* fraction [n |-> numerator, d |-> denominator] with d > 0, which is what  *)
(* the float arithmetic of quantiles yields for integer weights and the     *)
(* alphas and qs below.                                                     *)

\* the keys are None and 1..MaxHKey, a weight is at most MaxWeight
MaxHKey == 2

MaxWeight == 2

HKeys == {None} \cup (1..MaxHKey)

\* hash(None) is a number of the build: one below the hash of every other
\* key and one above
HashesOfNone == {0, MaxHKey + 1}

\* Histogram() and Histogram(key=hash)
KeyFunctions == {"none", "hash"}

\* Histogram(key=key) with no data
OrderedHistogram(key, hash_of_none) ==
    [items |-> <<>>, key |-> key, hash_of_none |-> hash_of_none]

\* hash(k): an integer hashes to itself
hash(h, k) == IF k = None THEN h.hash_of_none ELSE k

\* list(self.keys())
histogram_keys(h) == {h.items[i][1] : i \in 1..Len(h.items)}

\* Histogram.__getitem__(key): 0 for a missing key
histogram_getitem(h, key) ==
    IF \E i \in 1..Len(h.items) : h.items[i][1] = key
    THEN h.items[CHOOSE i \in 1..Len(h.items) : h.items[i][1] = key][2]
    ELSE 0

\* the TypeError of comparing None with a number, when a new key is put in
\* its place among the keys of a histogram without a key function
unorderable(h, key) ==
    /\ h.key = "none"
    /\ key \notin histogram_keys(h)
    /\ \E k \in histogram_keys(h) : (k = None) # (key = None)

\* Histogram.__setitem__(key, value) of orderable keys: a stored key gets
\* the value, a new key goes to its place in the order of the key function
histogram_setitem(h, key, value) ==
    IF key \in histogram_keys(h)
    THEN [h EXCEPT !.items =
             [i \in 1..Len(h.items) |->
                 IF h.items[i][1] = key THEN <<key, value>> ELSE h.items[i]]]
    ELSE LET n == Cardinality({i \in 1..Len(h.items) :
                     IF h.key = "hash"
                     THEN hash(h, h.items[i][1]) <= hash(h, key)
                     ELSE h.items[i][1] <= key})
         IN  [h EXCEPT !.items = SubSeq(h.items, 1, n) \o <<<<key, value>>>>
                                 \o SubSeq(h.items, n + 1, Len(h.items))]

\* Histogram.from_dict(in_dict) of a dict in the order of a sequence
RECURSIVE from_dict(_, _)
from_dict(h, pairs) ==
    IF pairs = <<>> THEN h
    ELSE from_dict(histogram_setitem(h, Head(pairs)[1], Head(pairs)[2]),
                   Tail(pairs))

\* Histogram._discard_value(value): self when the value is no key, else a
\* new Histogram() of the other items
histogram_discard_value(h, value) ==
    IF value \notin histogram_keys(h) THEN h
    ELSE from_dict(OrderedHistogram("none", h.hash_of_none),
                   SelectSeq(h.items, LAMBDA item : item[1] # value))

\* Histogram.total(): sum(self.values())
RECURSIVE sum_values(_)
sum_values(items) ==
    IF items = <<>> THEN 0 ELSE Head(items)[2] + sum_values(Tail(items))

histogram_total(h) == sum_values(h.items)

\* Histogram.max(): the first key from the end with a weight > 0, None
\* when the loop ends
RECURSIVE histogram_max(_)
histogram_max(h) ==
    IF h.items = <<>> THEN None
    ELSE IF h.items[Len(h.items)][2] > 0 THEN h.items[Len(h.items)][1]
    ELSE histogram_max([h EXCEPT !.items = SubSeq(@, 1, Len(h.items) - 1)])

\* Histogram.min(): the first key with a weight > 0, None when the loop ends
RECURSIVE histogram_min(_)
histogram_min(h) ==
    IF h.items = <<>> THEN None
    ELSE IF Head(h.items)[2] > 0 THEN Head(h.items)[1]
    ELSE histogram_min([h EXCEPT !.items = Tail(@)])

\* the greatest common divisor of two naturals
RECURSIVE gcd(_, _)
gcd(a, b) == IF b = 0 THEN a ELSE gcd(b, a % b)

\* the float n / d, for d # 0
frac(n, d) ==
    LET s == IF d < 0 THEN 0 - 1 ELSE 1
        a == IF n < 0 THEN 0 - n ELSE n
        b == IF d < 0 THEN 0 - d ELSE d
        g == gcd(a, b)
    IN  [n |-> (s * n) \div g, d |-> b \div g]

\* float(k) of an integer
to_float(k) == [n |-> k, d |-> 1]

\* x + y, x - y, x * y, x / y, x < y of floats
frac_add(x, y) == frac(x.n * y.d + y.n * x.d, x.d * y.d)

frac_sub(x, y) == frac(x.n * y.d - y.n * x.d, x.d * y.d)

frac_mul(x, y) == frac(x.n * y.n, x.d * y.d)

frac_div(x, y) == frac(x.n * y.d, x.d * y.n)

frac_lt(x, y) == x.n * y.d < y.n * x.d

\* inverse[x] = value on the SortedDict `inverse` of <<x, value>> items
inverse_setitem(inverse, x, value) ==
    IF \E i \in 1..Len(inverse) : inverse[i][1] = x
    THEN [i \in 1..Len(inverse) |->
             IF inverse[i][1] = x THEN <<x, value>> ELSE inverse[i]]
    ELSE LET n == Cardinality({i \in 1..Len(inverse) :
                                  frac_lt(inverse[i][1], x)})
         IN  SubSeq(inverse, 1, n) \o <<<<x, value>>>>
             \o SubSeq(inverse, n + 1, Len(inverse))

\* inverse.bisect_left(q)
inverse_bisect_left(inverse, q) ==
    Cardinality({i \in 1..Len(inverse) : frac_lt(inverse[i][1], q)})

\* inverse.keys()[index] and inverse[inverse.keys()[index]], a negative
\* index counting from the end
inverse_item(inverse, index) ==
    IF index < 0 THEN inverse[Len(inverse) + index + 1]
    ELSE inverse[index + 1]

\* min(clean.values())
RECURSIVE min_values(_)
min_values(items) ==
    IF Len(items) = 1 THEN Head(items)[2]
    ELSE LET rest == min_values(Tail(items))
         IN  IF Head(items)[2] < rest THEN Head(items)[2] ELSE rest

\* the loop of _quantile_function that fills `inverse`
RECURSIVE inverse_loop(_, _, _, _, _)
inverse_loop(items, cumulative_sum_, beta, total_, inverse) ==
    IF items = <<>> THEN inverse
    ELSE LET value == Head(items)[1]
             count == Head(items)[2]
             lower == inverse_setitem(inverse,
                          frac_div(frac_add(cumulative_sum_, beta), total_),
                          value)
             after == frac_add(cumulative_sum_, to_float(count))
             upper == inverse_setitem(lower,
                          frac_div(frac_sub(after, beta), total_), value)
         IN  inverse_loop(Tail(items), after, beta, total_, upper)

\* the result None of a quantile
NoQuantile == [none |-> TRUE]

\* function(q) of _quantile_function returning, with beta = 0, the value at
\* the key before q also when q is a key
quantile_of_key_before(inverse, beta, q0) ==
    LET q_min == inverse[1][1]
        q_max == inverse[Len(inverse)][1]
        q == IF frac_lt(q0, q_min) THEN q_min
             ELSE IF frac_lt(q_max, q0) THEN q_max ELSE q0
        previous_index == inverse_bisect_left(inverse, q) - 1
        one == inverse_item(inverse, previous_index)
    IN  IF frac_lt(to_float(0), beta)
        THEN IF \E i \in 1..Len(inverse) : inverse[i][1] = q
             THEN to_float(inverse[CHOOSE i \in 1..Len(inverse) :
                                       inverse[i][1] = q][2])
             ELSE LET two == inverse_item(inverse, previous_index + 1)
                      x1 == one[1]
                      x2 == two[1]
                      y1 == to_float(one[2])
                      y2 == to_float(two[2])
                  IN  frac_add(frac_div(frac_mul(frac_sub(y2, y1),
                                                 frac_sub(q, x1)),
                                        frac_sub(x2, x1)), y1)
        ELSE to_float(one[2])

\* function(q) of _quantile_function, for 0 <= q <= 1: q is clamped into
\* [q_min, q_max]; with beta > 0 the value at q or the linear interpolation
\* between its neighbours; with beta = 0 the mean of the values at the key
\* before q and at q when q is a key, else the value at the key before q
quantile_of(inverse, beta, q0) ==
    LET q_min == inverse[1][1]
        q_max == inverse[Len(inverse)][1]
        q == IF frac_lt(q0, q_min) THEN q_min
             ELSE IF frac_lt(q_max, q0) THEN q_max ELSE q0
        previous_index == inverse_bisect_left(inverse, q) - 1
        one == inverse_item(inverse, previous_index)
    IN  IF frac_lt(to_float(0), beta)
        THEN IF \E i \in 1..Len(inverse) : inverse[i][1] = q
             THEN to_float(inverse[CHOOSE i \in 1..Len(inverse) :
                                       inverse[i][1] = q][2])
             ELSE LET two == inverse_item(inverse, previous_index + 1)
                      x1 == one[1]
                      x2 == two[1]
                      y1 == to_float(one[2])
                      y2 == to_float(two[2])
                  IN  frac_add(frac_div(frac_mul(frac_sub(y2, y1),
                                                 frac_sub(q, x1)),
                                        frac_sub(x2, x1)), y1)
        ELSE IF \E i \in 1..Len(inverse) : inverse[i][1] = q
             THEN LET two == inverse_item(inverse, previous_index + 1)
                  IN  frac_mul(frac(1, 2), to_float(one[2] + two[2]))
             ELSE to_float(one[2])

\* Histogram.quantile(q, alpha=alpha): None when the weights without the
\* key None sum to zero, ValueError for q outside [0, 1]
quantile(h, q, alpha) ==
    LET clean  == histogram_discard_value(h, None)
        total_ == histogram_total(clean)
    IN  IF total_ = 0
        THEN [error |-> "none", value |-> NoQuantile]
        ELSE IF frac_lt(q, to_float(0)) \/ frac_lt(to_float(1), q)
        THEN [error |-> "ValueError", value |-> NoQuantile]
        ELSE LET beta == frac_mul(alpha, to_float(min_values(clean.items)))
                 inverse == inverse_loop(clean.items, to_float(0), beta,
                                         to_float(total_), <<>>)
             IN  [error |-> "none", value |-> quantile_of(inverse, beta, q)]

-----------------------------------------------------------------------------
(* traces.sorted_dict.SortedDict: _keys is the list of its keys, _dict its  *)
(* dict as the sequence of <<key, value>> in the order of insertion, key    *)
(* the name of its key function                                             *)

\* the keys are 1..MaxSKey
MaxSKey == 3

SKeys == 1..MaxSKey

SValues == {0, 1}

\* no key function, or lambda k: k // 2, under which 2 and 3 compare equal
SortKeys == {"none", "halve"}

\* SortedDict() / SortedDict(key)
SortedDict(key) == [keys |-> <<>>, dict |-> <<>>, key |-> key]

\* self._key(k), k itself without a key function
sort_key(sd, k) == IF sd.key = "halve" THEN k \div 2 ELSE k

\* key in self._dict
in_dict(sd, key) == \E i \in 1..Len(sd.dict) : sd.dict[i][1] = key

\* self._dict[key] = value
dict_setitem(dict, key, value) ==
    IF \E i \in 1..Len(dict) : dict[i][1] = key
    THEN [i \in 1..Len(dict) |->
             IF dict[i][1] = key THEN <<key, value>> ELSE dict[i]]
    ELSE Append(dict, <<key, value>>)

\* del self._dict[key]
dict_delitem(dict, key) == SelectSeq(dict, LAMBDA item : item[1] # key)

\* SortedDict._bisect_left(key)
sd_bisect_left(sd, key) ==
    Cardinality({i \in 1..Len(sd.keys) :
                    sort_key(sd, sd.keys[i]) < sort_key(sd, key)})

\* SortedDict._bisect_right(key)
sd_bisect_right(sd, key) ==
    Cardinality({i \in 1..Len(sd.keys) :
                    sort_key(sd, sd.keys[i]) <= sort_key(sd, key)})

\* SortedDict._insort(key): bisect.insort_left with a key function,
\* bisect.insort (to the right) without
sd_insort(sd, key) ==
    LET n == IF sd.key # "none" THEN sd_bisect_left(sd, key)
             ELSE sd_bisect_right(sd, key)
    IN  SubSeq(sd.keys, 1, n) \o <<key>> \o SubSeq(sd.keys, n + 1, Len(sd.keys))

\* sorted(self._dict, key=self._key): a stable sort of the keys of the dict
RECURSIVE sorted_by(_, _, _)
sorted_by(sd, dict, out) ==
    IF dict = <<>> THEN out
    ELSE LET k == Head(dict)[1]
             n == Cardinality({i \in 1..Len(out) :
                                  sort_key(sd, out[i]) <= sort_key(sd, k)})
         IN  sorted_by(sd, Tail(dict),
                       SubSeq(out, 1, n) \o <<k>> \o SubSeq(out, n + 1, Len(out)))

\* SortedDict._sort_keys()
sd_sort_keys(sd) == [sd EXCEPT !.keys = sorted_by(sd, sd.dict, <<>>)]

\* self._dict.update(data)
RECURSIVE dict_update(_, _)
dict_update(dict, data) ==
    IF data = <<>> THEN dict
    ELSE dict_update(dict_setitem(dict, Head(data)[1], Head(data)[2]),
                     Tail(data))

\* SortedDict.update(data)
sd_update(sd, data) ==
    sd_sort_keys([sd EXCEPT !.dict = dict_update(sd.dict, data)])

\* SortedDict.__setitem__(key, value)
sd_setitem(sd, key, value) ==
    [sd EXCEPT !.keys = IF in_dict(sd, key) THEN @ ELSE sd_insort(sd, key),
               !.dict = dict_setitem(@, key, value)]

\* SortedDict.__delitem__(key): del self._dict[key] (KeyError for a
\* missing key), then the pop of the key at index _bisect_left(key)
sd_delitem(sd, key) ==
    IF ~in_dict(sd, key) THEN [error |-> "KeyError", sd |-> sd]
    ELSE LET idx     == sd_bisect_left(sd, key)
             deleted == [sd EXCEPT !.dict = dict_delitem(@, key)]
         IN  IF idx >= Len(sd.keys)
             THEN [error |-> "IndexError", sd |-> deleted]
             ELSE [error |-> "none",
                   sd |-> [deleted EXCEPT !.keys =
                              SubSeq(sd.keys, 1, idx)
                              \o SubSeq(sd.keys, idx + 2, Len(sd.keys))]]

\* the loop `for k in self._keys[lo:hi]: del self._dict[k]` of delete_range,
\* ended by the KeyError of a key that is not in the dict
RECURSIVE delete_range_loop(_, _)
delete_range_loop(dict, keys) ==
    IF keys = <<>> THEN [error |-> "none", dict |-> dict]
    ELSE IF ~(\E i \in 1..Len(dict) : dict[i][1] = Head(keys))
    THEN [error |-> "KeyError", dict |-> dict]
    ELSE delete_range_loop(dict_delitem(dict, Head(keys)), Tail(keys))

\* SortedDict.delete_range(minimum, maximum, inclusive=(inc_min, inc_max))
sd_delete_range(sd, minimum, maximum, inc_min, inc_max) ==
    LET lo == IF inc_min THEN sd_bisect_left(sd, minimum)
              ELSE sd_bisect_right(sd, minimum)
        hi == IF inc_max THEN sd_bisect_right(sd, maximum)
              ELSE sd_bisect_left(sd, maximum)
        loop == delete_range_loop(sd.dict, SubSeq(sd.keys, lo + 1, hi))
    IN  IF loop.error # "none"
        THEN [error |-> loop.error, sd |-> [sd EXCEPT !.dict = loop.dict]]
        ELSE [error |-> "none",
              sd |-> [sd EXCEPT !.dict = loop.dict,
                                !.keys = SubSeq(sd.keys, 1, lo)
                                         \o SubSeq(sd.keys,
                                                   IF hi > lo THEN hi + 1
                                                   ELSE lo + 1,
                                                   Len(sd.keys))]]

-----------------------------------------------------------------------------
(* One series under its owner's calls *)

\* no call is in progress: the owner holds the series and nothing else
Ready == call.op = "none"

\* no EventSeries, Histogram or SortedDict has been built
NoObjects ==
    /\ es_open = <<>>
    /\ es_closed = <<>>
    /\ hist = <<>>
    /\ sdict = [keys |-> <<>>, dict |-> <<>>, key |-> "none"]
    /\ ecall = [op |-> "none"]

Init ==
    /\ \E default \in Values : ts = TimeSeries(default)
    /\ pre = ts
    /\ call = [op |-> "none"]
    /\ tsl = <<>>
    /\ mcall = [op |-> "none"]
    /\ NoObjects

\* ts.set(time, value, compact)
Set(time, value, c) ==
    /\ Ready
    /\ pre' = ts
    /\ ts' = set(ts, time, value, c)
    /\ call' = [op |-> "set", time |-> time, value |-> value, compact |-> c]
    /\ UNCHANGED mergeVars

\* ts.remove(time): KeyError when no measurement is stored at time
Remove(time) ==
    /\ Ready
    /\ pre' = ts
    /\ ts' = IF time \in Keys(ts.d) THEN remove(ts, time) ELSE ts
    /\ call' = [op |-> "remove", time |-> time,
                error |-> IF time \in Keys(ts.d) THEN "none" ELSE "KeyError"]
    /\ UNCHANGED mergeVars

\* ts.set_interval(start, end, value, compact): ValueError when start >= end
SetInterval(start, end, value, c) ==
    /\ Ready
    /\ pre' = ts
    /\ ts' = IF start >= end THEN ts ELSE set_interval(ts, start, end, value, c)
    /\ call' = [op |-> "set_interval", start |-> start, end |-> end,
                value |-> value, compact |-> c,
                error |-> IF start >= end THEN "ValueError" ELSE "none"]
    /\ UNCHANGED mergeVars

\* ts.compact()
Compact ==
    /\ Ready
    /\ pre' = ts
    /\ ts' = compact(ts)
    /\ call' = [op |-> "compact"]
    /\ UNCHANGED mergeVars

\* ts.get(q)
Get(q) ==
    /\ Ready
    /\ pre' = ts
    /\ call' = [op |-> "get", time |-> q, result |-> get(ts, q)]
    /\ UNCHANGED <<ts, mergeVars>>

\* list(ts.iterperiods(start, end)) with no value filter; None for start or
\* end is the argument left out
IterPeriods(start, end) ==
    /\ Ready
    /\ pre' = ts
    /\ LET r == iterperiods(ts, start, end, None)
       IN  call' = [op |-> "iterperiods", start |-> start, end |-> end,
                    error |-> r.error, result |-> r.periods]
    /\ UNCHANGED <<ts, mergeVars>>

\* the call returns: the owner keeps the series and drops the result
Return ==
    /\ ~Ready
    /\ pre' = ts
    /\ call' = [op |-> "none"]
    /\ UNCHANGED <<ts, mergeVars>>

Next ==
    \/ \E t \in Times, v \in Values, c \in BOOLEAN : Set(t, v, c)
    \/ \E t \in Times : Remove(t)
    \/ \E a \in Times, b \in Times, v \in Values, c \in BOOLEAN :
          SetInterval(a, b, v, c)
    \/ Compact
    \/ \E q \in QTimes : Get(q)
    \/ \E a \in QTimes \cup {None}, b \in QTimes \cup {None} : IterPeriods(a, b)
    \/ Return

Spec == Init /\ [][Next]_vars

-----------------------------------------------------------------------------
(* A list of series and the merges of it *)

MReady == mcall.op = "none"

\* the number of measurements of the list
RECURSIVE n_points(_)
n_points(timeseries_list) ==
    IF timeseries_list = <<>> THEN 0
    ELSE Len(Head(timeseries_list).d) + n_points(Tail(timeseries_list))

MInit ==
    /\ tsl = <<>>
    /\ mcall = [op |-> "none"]
    /\ ts = TimeSeries(None)
    /\ pre = ts
    /\ call = [op |-> "none"]
    /\ NoObjects

\* ts_list.append(TimeSeries(default=default))
NewSeries(default) ==
    /\ MReady
    /\ Len(tsl) < MaxK
    /\ tsl' = Append(tsl, TimeSeries(default))
    /\ UNCHANGED <<mcall, seriesVars>>

\* ts_list[i][time] = value
SetIn(i, time, value) ==
    /\ MReady
    /\ LET new == [tsl EXCEPT ![i] = set(tsl[i], time, value, FALSE)]
       IN  /\ n_points(new) <= MaxPoints
           /\ tsl' = new
    /\ UNCHANGED <<mcall, seriesVars>>

\* list(TimeSeries.iter_merge(ts_list))
IterMerge ==
    /\ MReady
    /\ mcall' = [op |-> "iter_merge", result |-> iter_merge(tsl)]
    /\ UNCHANGED <<tsl, seriesVars>>

\* list(heapq_iter_merge(ts_list))
HeapqIterMerge ==
    /\ MReady
    /\ mcall' = [op |-> "heapq_iter_merge", result |-> heapq_iter_merge(tsl)]
    /\ UNCHANGED <<tsl, seriesVars>>

\* list(naive_iter_merge(ts_list))
NaiveIterMerge ==
    /\ MReady
    /\ mcall' = [op |-> "naive_iter_merge", result |-> naive_iter_merge(tsl)]
    /\ UNCHANGED <<tsl, seriesVars>>

\* TimeSeries.merge(ts_list, compact=c, operation=operation)
Merge(c, op) ==
    /\ MReady
    /\ mcall' = [op |-> "merge", compact |-> c, operation |-> op,
                 result |-> merge(tsl, c, op)]
    /\ UNCHANGED <<tsl, seriesVars>>

\* ts_list[i] + ts_list[j]
Sum(i, j) ==
    /\ MReady
    /\ mcall' = [op |-> "sum", i |-> i, j |-> j,
                 result |-> sum(tsl[i], tsl[j])]
    /\ UNCHANGED <<tsl, seriesVars>>

\* the call returns: the caller keeps the list and drops the result
MReturn ==
    /\ ~MReady
    /\ mcall' = [op |-> "none"]
    /\ UNCHANGED <<tsl, seriesVars>>

\* the caller builds the list
Build ==
    \/ \E default \in Defaults : NewSeries(default)
    \/ \E i \in 1..Len(tsl), t \in MTimes, v \in Values : SetIn(i, t, v)

\* a list under the three strategies of iterating its merge
INext ==
    \/ Build
    \/ IterMerge
    \/ HeapqIterMerge
    \/ NaiveIterMerge
    \/ MReturn

SpecIterMerge == MInit /\ [][INext]_vars

\* TimeSeries.merge(ts_list, compact=True, operation=operation) and
\* TimeSeries.merge(ts_list, compact=False, operation=operation)
MergeBoth(op) ==
    /\ MReady
    /\ mcall' = [op |-> "merge_both", operation |-> op,
                 compacted |-> merge(tsl, TRUE, op),
                 plain |-> merge(tsl, FALSE, op)]
    /\ UNCHANGED <<tsl, seriesVars>>

\* a list under merge with and without compact
CMNext ==
    \/ Build
    \/ \E op \in Operations : MergeBoth(op)
    \/ MReturn

SpecMergeCompact == MInit /\ [][CMNext]_vars

\* ts_list[i] == ts_list[j]
Eq(i, j) ==
    /\ MReady
    /\ mcall' = [op |-> "eq", i |-> i, j |-> j,
                 result |-> eq(tsl[i], tsl[j])]
    /\ UNCHANGED <<tsl, seriesVars>>

\* the series of a list under ==
QNext ==
    \/ Build
    \/ \E i \in 1..Len(tsl), j \in 1..Len(tsl) : Eq(i, j)
    \/ MReturn

SpecEq == MInit /\ [][QNext]_vars

\* a list under merge
MNext ==
    \/ Build
    \/ \E c \in BOOLEAN, op \in Operations : Merge(c, op)
    \/ MReturn

SpecMerge == MInit /\ [][MNext]_vars

\* the series of a list under +
SNext ==
    \/ Build
    \/ \E i \in 1..Len(tsl), j \in 1..Len(tsl) : Sum(i, j)
    \/ MReturn

SpecSum == MInit /\ [][SNext]_vars

-----------------------------------------------------------------------------
(* Two series built from the same (t, v) sequence, as in                    *)
(* tests/test_compact.py: test_ts by plain set and then compact(),          *)
(* compact_ts by set(compact=True).  The list holds <<test_ts, compact_ts>>; *)
(* the call record remembers the last time set and whether the times set    *)
(* so far were strictly increasing.                                         *)

CInit ==
    /\ \E default \in Defaults :
          tsl = <<TimeSeries(default), TimeSeries(default)>>
    /\ mcall = [op |-> "none", last |-> None, increasing |-> TRUE]
    /\ ts = TimeSeries(None)
    /\ pre = ts
    /\ call = [op |-> "none"]
    /\ NoObjects

\* test_ts.set(t, value); compact_ts.set(t, value, compact=True)
SetBoth(time, value) ==
    /\ mcall.op = "none"
    /\ tsl' = <<set(tsl[1], time, value, FALSE), set(tsl[2], time, value, TRUE)>>
    /\ mcall' = [op |-> "none", last |-> time,
                 increasing |-> mcall.increasing /\ time > mcall.last]
    /\ UNCHANGED seriesVars

\* test_ts.compact(), after which the two series are compared
CompactTest ==
    /\ mcall.op = "none"
    /\ tsl' = <<compact(tsl[1]), tsl[2]>>
    /\ mcall' = [mcall EXCEPT !.op = "compact"]
    /\ UNCHANGED seriesVars

CNext ==
    \/ \E t \in MTimes, v \in Values : SetBoth(t, v)
    \/ CompactTest

SpecCompact == CInit /\ [][CNext]_vars

-----------------------------------------------------------------------------
(* One series under del ts[start:end] *)

\* del ts[start:end]
RemovePointsFromInterval(start, end, live) ==
    /\ Ready
    /\ pre' = ts
    /\ LET r == remove_points_from_interval(ts, start, end, live)
       IN  /\ ts' = r.s
           /\ call' = [op |-> "remove_points_from_interval", start |-> start,
                       end |-> end, live |-> live, error |-> r.error]
    /\ UNCHANGED mergeVars

\* the calls of the owner while no call is in progress
RCalls ==
    \/ \E t \in Times, v \in Values : Set(t, v, FALSE)
    \/ \E a \in QTimes, b \in QTimes, live \in BOOLEAN :
          RemovePointsFromInterval(a, b, live)

RNext ==
    \/ Ready /\ RCalls
    \/ Return

SpecRemovePoints == Init /\ [][RNext]_vars

-----------------------------------------------------------------------------
(* One series under distribution and mean *)

\* no measurement at a time of a mask under construction
Absent == 0 - 2

\* the boolean masks a caller passes: up to MaxMaskLen measurements of
\* False or True, the empty mask included
Masks ==
    {[d |-> SelectSeq([i \in 1..(MaxDTime + 2) |-> <<i - 1, f[i - 1]>>],
                      LAMBDA item : item[2] # Absent),
      default |-> default] :
        default \in MaskDefaults,
        f \in {g \in [DQTimes -> {Absent, 0, 1}] :
                  Cardinality({t \in DQTimes : g[t] # Absent}) <= MaxMaskLen}}

\* the mask arguments of a call: a mask, or none
MaskArguments == Masks \cup {NoMask}

DInit ==
    /\ \E default \in Defaults : ts = TimeSeries(default)
    /\ pre = ts
    /\ call = [op |-> "none"]
    /\ tsl = <<>>
    /\ mcall = [op |-> "none"]
    /\ NoObjects

\* ts.distribution(start, end, normalized=False, mask=mask); None for start
\* or end is the argument left out
Distribution(start, end, mask) ==
    /\ Ready
    /\ pre' = ts
    /\ LET r == distribution(ts, start, end, FALSE, mask)
       IN  call' = [op |-> "distribution", start |-> start, end |-> end,
                    mask |-> mask, error |-> r.error, result |-> r.hist]
    /\ UNCHANGED <<ts, mergeVars>>

\* ts.mean(start, end)
Mean(start, end) ==
    /\ Ready
    /\ pre' = ts
    /\ LET r == mean(ts, start, end, NoMask)
       IN  call' = [op |-> "mean", start |-> start, end |-> end,
                    error |-> r.error, result |-> r.value]
    /\ UNCHANGED <<ts, mergeVars>>

\* the calls of the owner while no call is in progress
DCalls ==
    \/ \E t \in DTimes, v \in DValues : Set(t, v, FALSE)
    \/ \E a \in DQTimes \cup {None}, b \in DQTimes \cup {None},
          mask \in MaskArguments : Distribution(a, b, mask)
    \/ \E a \in DQTimes \cup {None}, b \in DQTimes \cup {None} : Mean(a, b)

DNext ==
    \/ Ready /\ DCalls
    \/ Return

SpecDist == DInit /\ [][DNext]_vars

-----------------------------------------------------------------------------
(* One series under operation *)

\* ts.operation(other, function, default) for a TimeSeries other
Operation(other, function, default) ==
    /\ Ready
    /\ pre' = ts
    /\ call' = [op |-> "operation", other |-> other, function |-> function,
                default |-> default,
                result |-> operation(ts, other, function, default)]
    /\ UNCHANGED <<ts, mergeVars>>

\* ts.operation(x, function, default) for a constant x
OperationScalar(x, function, default) ==
    /\ Ready
    /\ pre' = ts
    /\ call' = [op |-> "operation_scalar", other |-> x,
                function |-> function, default |-> default,
                result |-> operation(ts, Scalar(x), function, default)]
    /\ UNCHANGED <<ts, mergeVars>>

\* the calls of the owner while no call is in progress
OCalls ==
    \/ \E t \in DTimes, v \in DValues : Set(t, v, FALSE)
    \/ \E other \in Masks, function \in Functions, default \in Defaults :
          Operation(other, function, default)
    \/ \E x \in Values, function \in Functions, default \in Defaults :
          OperationScalar(x, function, default)

ONext ==
    \/ Ready /\ OCalls
    \/ Return

SpecOperation == DInit /\ [][ONext]_vars

-----------------------------------------------------------------------------
(* One series under slice and sample *)

\* the sampling periods of a call, zero and one longer than any window
\* included
SamplingPeriods == 0..(MaxDTime + 2)

\* ts.slice(start, end)
Slice(start, end) ==
    /\ Ready
    /\ pre' = ts
    /\ LET r == slice(ts, start, end)
       IN  call' = [op |-> "slice", start |-> start, end |-> end,
                    error |-> r.error, result |-> r.result]
    /\ UNCHANGED <<ts, mergeVars>>

\* ts.sample(sampling_period, start, end); None for start or end is the
\* argument left out
Sample(sampling_period, start, end) ==
    /\ Ready
    /\ pre' = ts
    /\ LET r == sample(ts, sampling_period, start, end, NoMask)
       IN  call' = [op |-> "sample", sampling_period |-> sampling_period,
                    start |-> start, end |-> end,
                    error |-> r.error, result |-> r.result]
    /\ UNCHANGED <<ts, mergeVars>>

\* the calls of the owner while no call is in progress
WCalls ==
    \/ \E t \in DTimes, v \in DValues : Set(t, v, FALSE)
    \/ \E a \in DQTimes, b \in DQTimes : Slice(a, b)
    \/ \E p \in SamplingPeriods, a \in DQTimes \cup {None},
          b \in DQTimes \cup {None} : Sample(p, a, b)

WNext ==
    \/ Ready /\ WCalls
    \/ Return

SpecWindow == DInit /\ [][WNext]_vars

\* ts.sample(sampling_period, start, end, mask=mask) for a mask and a
\* window start < end
SampleMasked(sampling_period, start, end, mask) ==
    /\ Ready
    /\ start < end
    /\ pre' = ts
    /\ LET r == sample(ts, sampling_period, start, end, mask)
       IN  call' = [op |-> "sample", sampling_period |-> sampling_period,
                    start |-> start, end |-> end, mask |-> mask,
                    error |-> r.error, result |-> r.result]
    /\ UNCHANGED <<ts, mergeVars>>

\* the calls of the owner while no call is in progress
SMCalls ==
    \/ \E t \in DTimes, v \in DValues : Set(t, v, FALSE)
    \/ \E p \in 1..MaxDTime, a \in DQTimes, b \in DQTimes, mask \in Masks :
          SampleMasked(p, a, b, mask)

SMNext ==
    \/ Ready /\ SMCalls
    \/ Return

SpecSampleMask == DInit /\ [][SMNext]_vars

-----------------------------------------------------------------------------
(* One numeric series under sample_interval *)

\* the values of a numeric series
SIValues == {0, 1, 2}

SIInit ==
    /\ \E default \in SIValues : ts = TimeSeries(default)
    /\ pre = ts
    /\ call = [op |-> "none"]
    /\ tsl = <<>>
    /\ mcall = [op |-> "none"]
    /\ NoObjects

\* ts.sample_interval(sampling_period, start, end, operation=op)
SampleInterval(sampling_period, start, end, op) ==
    /\ Ready
    /\ pre' = ts
    /\ LET r == sample_interval(ts, sampling_period, start, end, op)
       IN  call' = [op |-> "sample_interval",
                    sampling_period |-> sampling_period,
                    start |-> start, end |-> end, operation |-> op,
                    error |-> r.error, result |-> r.result]
    /\ UNCHANGED <<ts, mergeVars>>

\* the calls of the owner while no call is in progress
SICalls ==
    \/ \E t \in DTimes, v \in SIValues : Set(t, v, FALSE)
    \/ \E p \in SamplingPeriods, a \in DQTimes, b \in DQTimes,
          op \in {"max", "min"} : SampleInterval(p, a, b, op)

SINext ==
    \/ Ready /\ SICalls
    \/ Return

SpecSampleInterval == SIInit /\ [][SINext]_vars

-----------------------------------------------------------------------------
(* Two EventSeries under add, cumulative_sum and count_active *)

EReady == ecall.op = "none"

\* es_open = EventSeries(), es_closed = EventSeries()
EInit ==
    /\ NoObjects
    /\ ts = TimeSeries(None)
    /\ pre = ts
    /\ call = [op |-> "none"]
    /\ tsl = <<>>
    /\ mcall = [op |-> "none"]

\* es_open.add(t)
AddOpen(t) ==
    /\ Len(es_open) < MaxEvents
    /\ es_open' = add(es_open, t)
    /\ UNCHANGED <<ts, pre, call, tsl, mcall, es_closed, hist, sdict, ecall>>

\* es_closed.add(t)
AddClosed(t) ==
    /\ Len(es_closed) < MaxEvents
    /\ es_closed' = add(es_closed, t)
    /\ UNCHANGED <<ts, pre, call, tsl, mcall, es_open, hist, sdict, ecall>>

\* es_open.cumulative_sum()
CumulativeSum ==
    /\ ecall' = [op |-> "cumulative_sum", result |-> cumulative_sum(es_open)]
    /\ UNCHANGED <<ts, pre, call, tsl, mcall, es_open, es_closed, hist, sdict>>

\* EventSeries.count_active(es_open, es_closed)
CountActive ==
    /\ ecall' = [op |-> "count_active",
                 result |-> count_active(es_open, es_closed)]
    /\ UNCHANGED <<ts, pre, call, tsl, mcall, es_open, es_closed, hist, sdict>>

\* the call returns: the caller keeps the objects and drops the result
EReturn ==
    /\ ~EReady
    /\ ecall' = [op |-> "none"]
    /\ UNCHANGED <<ts, pre, call, tsl, mcall, es_open, es_closed, hist, sdict>>

\* the calls of the owner while no call is in progress
ECalls ==
    \/ \E t \in ETimes : AddOpen(t)
    \/ \E t \in ETimes : AddClosed(t)
    \/ CumulativeSum
    \/ CountActive

ENext ==
    \/ EReady /\ ECalls
    \/ EReturn

SpecEvents == EInit /\ [][ENext]_vars

-----------------------------------------------------------------------------
(* One Histogram under +=, min, max, quantile and quantiles *)

\* the quantiles asked for and the alphas they are asked with
Qs == {frac(0, 1), frac(1, 4), frac(1, 3), frac(1, 2), frac(3, 4), frac(1, 1)}

InvalidQs == {frac(5, 4)}

Alphas == {frac(0, 1), frac(1, 2), frac(1, 1), frac(2, 1)}

\* hist = Histogram() or hist = Histogram(key=hash)
HInit ==
    /\ \E key \in KeyFunctions, hash_of_none \in HashesOfNone :
          /\ key = "none" => hash_of_none = 0
          /\ hist = OrderedHistogram(key, hash_of_none)
    /\ es_open = <<>>
    /\ es_closed = <<>>
    /\ sdict = [keys |-> <<>>, dict |-> <<>>, key |-> "none"]
    /\ ecall = [op |-> "none"]
    /\ ts = TimeSeries(None)
    /\ pre = ts
    /\ call = [op |-> "none"]
    /\ tsl = <<>>
    /\ mcall = [op |-> "none"]

\* hist[key] += w: UnorderableElements, the histogram being left as it
\* was, when the new key cannot be compared with the stored ones
Increment(key, w) ==
    /\ histogram_getitem(hist, key) + w <= MaxWeight
    /\ IF unorderable(hist, key)
       THEN /\ ecall' = [op |-> "setitem", error |-> "UnorderableElements"]
            /\ hist' = hist
       ELSE /\ hist' = histogram_setitem(hist, key,
                                         histogram_getitem(hist, key) + w)
            /\ ecall' = ecall
    /\ UNCHANGED <<ts, pre, call, tsl, mcall, es_open, es_closed, sdict>>

\* hist.min()
Min ==
    /\ ecall' = [op |-> "min", result |-> histogram_min(hist)]
    /\ UNCHANGED <<ts, pre, call, tsl, mcall, es_open, es_closed, hist, sdict>>

\* hist.max()
Max ==
    /\ ecall' = [op |-> "max", result |-> histogram_max(hist)]
    /\ UNCHANGED <<ts, pre, call, tsl, mcall, es_open, es_closed, hist, sdict>>

\* hist.quantile(q, alpha=alpha)
Quantile(q, alpha) ==
    /\ ecall' = [op |-> "quantile", q |-> q, alpha |-> alpha,
                 error |-> quantile(hist, q, alpha).error,
                 value |-> quantile(hist, q, alpha).value]
    /\ UNCHANGED <<ts, pre, call, tsl, mcall, es_open, es_closed, hist, sdict>>

\* hist.quantiles([q1, q2], alpha=alpha)
Quantiles(q1, q2, alpha) ==
    /\ ecall' = [op |-> "quantiles", q1 |-> q1, q2 |-> q2, alpha |-> alpha,
                 result |-> <<quantile(hist, q1, alpha).value,
                              quantile(hist, q2, alpha).value>>]
    /\ UNCHANGED <<ts, pre, call, tsl, mcall, es_open, es_closed, hist, sdict>>

\* the calls of the owner while no call is in progress
HCalls ==
    \/ \E key \in HKeys, w \in {0, 1} : Increment(key, w)
    \/ Min
    \/ Max
    \/ \E q \in Qs \cup InvalidQs, alpha \in Alphas : Quantile(q, alpha)
    \/ \E q1 \in Qs, q2 \in Qs, alpha \in Alphas :
          frac_lt(q1, q2) /\ Quantiles(q1, q2, alpha)

HNext ==
    \/ EReady /\ HCalls
    \/ EReturn

SpecHistogram == HInit /\ [][HNext]_vars

-----------------------------------------------------------------------------
(* One series under the calls that resolve a window: distribution, mean     *)
(* and the generator iterperiods, whose body runs at its first next()       *)

\* the masks of these calls: none, the empty masks, the masks of default
\* False
BoundaryMasks ==
    {mask \in MaskArguments :
        mask = NoMask \/ Len(mask.d) = 0 \/ mask.default = 0}

\* the masks given to mean: none, or an empty mask
EmptyMasks == {mask \in MaskArguments : mask = NoMask \/ Len(mask.d) = 0}

\* ts.mean(start, end, mask=mask)
MeanMasked(start, end, mask) ==
    /\ Ready
    /\ pre' = ts
    /\ LET r == mean(ts, start, end, mask)
       IN  call' = [op |-> "mean", start |-> start, end |-> end,
                    mask |-> mask, error |-> r.error, result |-> r.value]
    /\ UNCHANGED <<ts, mergeVars>>

\* g = ts.iterperiods(start, end): the generator is created, none of the
\* function's body has run
CreateIterPeriods(start, end) ==
    /\ Ready
    /\ pre' = ts
    /\ call' = [op |-> "iterperiods", start |-> start, end |-> end,
                mask |-> NoMask, state |-> "created", error |-> "none",
                result |-> <<>>]
    /\ UNCHANGED <<ts, mergeVars>>

\* next(g) on the new generator: the body runs from _check_boundaries to
\* the first yield, to the exception raised, or to its end
FirstNext ==
    /\ call.op = "iterperiods"
    /\ call.state = "created"
    /\ LET r == iterperiods(ts, call.start, call.end, None)
       IN  call' = [call EXCEPT
                       !.state = IF r.error # "none" THEN "raised"
                                 ELSE IF r.periods = <<>> THEN "exhausted"
                                 ELSE "yielded",
                       !.error = r.error,
                       !.result = IF r.periods = <<>> THEN <<>>
                                  ELSE <<Head(r.periods)>>]
    /\ UNCHANGED <<ts, pre, mergeVars>>

\* the calls of the owner while no call is in progress
BCalls ==
    \/ \E t \in DTimes, v \in DValues : Set(t, v, FALSE)
    \/ \E a \in DQTimes \cup {None}, b \in DQTimes \cup {None},
          mask \in BoundaryMasks : Distribution(a, b, mask)
    \/ \E a \in DQTimes \cup {None}, b \in DQTimes \cup {None},
          mask \in EmptyMasks : MeanMasked(a, b, mask)
    \/ \E a \in DQTimes \cup {None}, b \in DQTimes \cup {None} :
          CreateIterPeriods(a, b)

BNext ==
    \/ Ready /\ BCalls
    \/ FirstNext
    \/ Return

SpecBoundaries == DInit /\ [][BNext]_vars

-----------------------------------------------------------------------------
(* One traces.sorted_dict.SortedDict under __setitem__, __delitem__,        *)
(* update and delete_range                                                  *)

\* sdict = SortedDict() or sdict = SortedDict(lambda k: k // 2)
SDInit ==
    /\ \E key \in SortKeys : sdict = SortedDict(key)
    /\ es_open = <<>>
    /\ es_closed = <<>>
    /\ hist = <<>>
    /\ ecall = [op |-> "none"]
    /\ ts = TimeSeries(None)
    /\ pre = ts
    /\ call = [op |-> "none"]
    /\ tsl = <<>>
    /\ mcall = [op |-> "none"]

\* sdict[key] = value; the owner stores no more than MaxSKey keys, and
\* stops when the list of keys has come to hold more than that
SDSetItem(key, value) ==
    /\ Len(sdict.keys) <= MaxSKey
    /\ sdict' = sd_setitem(sdict, key, value)
    /\ ecall' = [op |-> "setitem", error |-> "none"]
    /\ UNCHANGED <<ts, pre, call, tsl, mcall, es_open, es_closed, hist>>

\* del sdict[key]
SDDelItem(key) ==
    /\ sdict' = sd_delitem(sdict, key).sd
    /\ ecall' = [op |-> "delitem", error |-> sd_delitem(sdict, key).error]
    /\ UNCHANGED <<ts, pre, call, tsl, mcall, es_open, es_closed, hist>>

\* sdict.update({k1: v1, k2: v2})
SDUpdate(k1, v1, k2, v2) ==
    /\ Len(sdict.keys) <= MaxSKey
    /\ k1 # k2
    /\ sdict' = sd_update(sdict, <<<<k1, v1>>, <<k2, v2>>>>)
    /\ ecall' = [op |-> "update", error |-> "none"]
    /\ UNCHANGED <<ts, pre, call, tsl, mcall, es_open, es_closed, hist>>

\* sdict.delete_range(minimum, maximum, inclusive=(inc_min, inc_max))
SDDeleteRange(minimum, maximum, inc_min, inc_max) ==
    /\ LET r == sd_delete_range(sdict, minimum, maximum, inc_min, inc_max)
       IN  /\ sdict' = r.sd
           /\ ecall' = [op |-> "delete_range", error |-> r.error]
    /\ UNCHANGED <<ts, pre, call, tsl, mcall, es_open, es_closed, hist>>

\* the calls of the owner while no call is in progress
SDCalls ==
    \/ \E key \in SKeys, value \in SValues : SDSetItem(key, value)
    \/ \E key \in SKeys : SDDelItem(key)
    \/ \E k1 \in SKeys, k2 \in SKeys, v1 \in SValues, v2 \in SValues :
          SDUpdate(k1, v1, k2, v2)
    \/ \E minimum \in SKeys, maximum \in SKeys,
          inc_min \in BOOLEAN, inc_max \in BOOLEAN :
          SDDeleteRange(minimum, maximum, inc_min, inc_max)

SDNext ==
    \/ EReady /\ SDCalls
    \/ EReturn

SpecSortedDict == SDInit /\ [][SDNext]_vars

-----------------------------------------------------------------------------
(* The claims about one series *)

\* the step function of the data model: the value stored at the greatest
\* stored key <= q, the default when there is none
StepValue(s, q) ==
    LET below == {k \in Keys(s.d) : k <= q}
    IN  IF below = {} THEN s.default
        ELSE LET k == CHOOSE x \in below : \A y \in below : y <= x
             IN  (CHOOSE item \in {s.d[i] : i \in 1..Len(s.d)} : item[1] = k)[2]

\* C1: get(q) with the default 'previous' interpolation returns the value
\* stored at the greatest stored key <= q, and the default of the series
\* when no stored key is <= q, after any sequence of set / remove /
\* set_interval / compact calls.
C1_GetIsStepValue ==
    call.op = "get" => call.result = StepValue(ts, call.time)

\* a get strictly between two stored keys, and one before the first key of
\* a series whose first value differs from the default
C1_Witness ==
    /\ call.op = "get"
    /\ Len(ts.d) >= 3
    /\ call.time \notin Keys(ts.d)
    /\ \E k \in Keys(ts.d) : k < call.time
    /\ \E k \in Keys(ts.d) : k > call.time
    /\ call.result # ts.default
    /\ ts.d[1][2] # call.result

\* C2: after set_interval(start, end, v, compact) with start < end, get(q)
\* is v for every q in [start, end), get(end) is what it was before the
\* call, and get(q) is unchanged for every q < start and every q > end.
C2_SetIntervalFunction ==
    (call.op = "set_interval" /\ call.start < call.end) =>
        /\ call.error = "none"
        /\ \A q \in QTimes :
              IF call.start <= q /\ q < call.end
              THEN get(ts, q) = call.value
              ELSE get(ts, q) = get(pre, q)

\* a compacting set_interval that deletes a key inside the interval, has a
\* key before start, and restores at end a value other than v
C2_Witness ==
    /\ call.op = "set_interval"
    /\ call.error = "none"
    /\ call.compact
    /\ \E k \in Keys(pre.d) : call.start < k /\ k < call.end
    /\ \E k \in Keys(pre.d) : k < call.start
    /\ get(pre, call.end) # call.value
    /\ get(pre, call.start) # call.value
    /\ call.end \notin Keys(pre.d)

\* C3: for start < end, iterperiods(start, end) with no value filter yields
\* periods (t0, t1, v) that tile [start, end): the first t0 is start, the
\* last t1 is end, every t0 < t1, each t0 is the previous t1, and v is
\* get(t) for every t in [t0, t1).
C3_PeriodsTile ==
    (call.op = "iterperiods" /\ call.start # None /\ call.end # None
        /\ call.start < call.end) =>
        LET p == call.result
        IN  /\ call.error = "none"
            /\ Len(p) >= 1
            /\ p[1][1] = call.start
            /\ p[Len(p)][2] = call.end
            /\ \A i \in 1..Len(p) :
                  /\ p[i][1] < p[i][2]
                  /\ i > 1 => p[i][1] = p[i - 1][2]
                  /\ \A t \in p[i][1]..(p[i][2] - 1) : p[i][3] = get(ts, t)

\* three periods or more, neither start nor end a stored key, over a series
\* with a key before start
C3_Witness ==
    /\ call.op = "iterperiods"
    /\ call.error = "none"
    /\ Len(call.result) >= 3
    /\ call.start \notin Keys(ts.d)
    /\ call.end \notin Keys(ts.d)
    /\ \E k \in Keys(ts.d) : k < call.start
    /\ call.result[1][3] # call.result[2][3]

-----------------------------------------------------------------------------
(* The claims about merging *)

\* the stored key times of the series of the list
AllKeys == UNION {Keys(tsl[i].d) : i \in 1..Len(tsl)}

\* the vector of the values of the series of the list at time t
StateAt(t) == [i \in 1..Len(tsl) |-> StepValue(tsl[i], t)]

\* the list of a sequence's times
TimesOf(pairs) == [n \in 1..Len(pairs) |-> pairs[n][1]]

\* C4: iter_merge yields (t, state) pairs in strictly increasing t, exactly
\* one for each distinct time that is a stored key of an input, and each
\* state has length K with state[i] the value of series i at t (its default
\* when it has no key <= t).
C4_IterMergeStream ==
    mcall.op = "iter_merge" =>
        LET r == mcall.result
        IN  /\ \A n \in 1..Len(r) : n > 1 => r[n - 1][1] < r[n][1]
            /\ {r[n][1] : n \in 1..Len(r)} = AllKeys
            /\ \A n \in 1..Len(r) :
                  /\ Len(r[n][2]) = Len(tsl)
                  /\ r[n][2] = StateAt(r[n][1])

\* two series share a key time, one of them has another key, and a series
\* has no key yet at the first time yielded
C4_Witness ==
    /\ mcall.op = "iter_merge"
    /\ Len(tsl) = 2
    /\ Keys(tsl[1].d) \cap Keys(tsl[2].d) # {}
    /\ Len(mcall.result) = 2
    /\ n_points(tsl) = 3
    /\ \E i \in 1..2 : mcall.result[1][2][i] = tsl[i].default
                       /\ mcall.result[2][2][i] # tsl[i].default

\* C5: TimeSeries.iter_merge, heapq_iter_merge and naive_iter_merge yield
\* the same (t, state) sequence for every list.
C5_StrategiesAgree ==
    /\ mcall.op = "heapq_iter_merge" => mcall.result = iter_merge(tsl)
    /\ mcall.op = "naive_iter_merge" => mcall.result = iter_merge(tsl)
    /\ mcall.op = "iter_merge" => mcall.result = naive_iter_merge(tsl)

\* the heap strategy has run on two series with a tied time and a later one
C5_Witness ==
    /\ mcall.op = "heapq_iter_merge"
    /\ Len(tsl) = 2
    /\ Keys(tsl[1].d) \cap Keys(tsl[2].d) # {}
    /\ Len(mcall.result) = 2
    /\ mcall.result[1][2] # mcall.result[2][2]

\* op(state), state itself when the operation is absent
Reduced(op, state) ==
    IF op = "none" THEN state ELSE apply_operation(op, state)

\* C6: the items of merge(list, compact=False, operation=op) are, in the
\* same order, the pairs (t, op(state)) for the pairs (t, state) that
\* iter_merge(list) yields.
C6_MergeItems ==
    (mcall.op = "merge" /\ ~mcall.compact) =>
        LET pairs == iter_merge(tsl)
        IN  mcall.result.d =
                [n \in 1..Len(pairs) |->
                    <<pairs[n][1], Reduced(mcall.operation, pairs[n][2])>>]

\* a merge without compaction stores the same reduced value at two
\* consecutive times
C6_Witness ==
    /\ mcall.op = "merge"
    /\ ~mcall.compact
    /\ mcall.operation = "ignorant_sum"
    /\ Len(tsl) = 2
    /\ Len(mcall.result.d) = 2
    /\ mcall.result.d[1][2] = mcall.result.d[2][2]
    /\ Len(tsl[1].d) > 0 /\ Len(tsl[2].d) > 0

\* C7: the default of merge(list, operation=op) is op of the list of the
\* inputs' defaults (the list itself when op is absent); an empty list, or a
\* list of empty series, gives a series with no items.
C7_MergeDefault ==
    mcall.op = "merge" =>
        /\ mcall.result.default = Reduced(mcall.operation, defaults(tsl))
        /\ Len(tsl) = 0 =>
              /\ mcall.result.d = <<>>
              /\ mcall.result.default = Reduced(mcall.operation, <<>>)
        /\ (\A i \in 1..Len(tsl) : Len(tsl[i].d) = 0) => mcall.result.d = <<>>

\* a merge of two empty series with different defaults under the
\* None-ignorant sum
C7_Witness ==
    /\ mcall.op = "merge"
    /\ mcall.operation = "ignorant_sum"
    /\ Len(tsl) = 2
    /\ \A i \in 1..2 : Len(tsl[i].d) = 0
    /\ tsl[1].default # tsl[2].default
    /\ mcall.result.default = 1

\* x + y with None as the identity (0 when both are None)
IgnorantAdd(x, y) ==
    (IF x = None THEN 0 ELSE x) + (IF y = None THEN 0 ELSE y)

\* C10: (a + b).get(t) is the sum of the values that are not None among
\* a.get(t) and b.get(t), at every time t, also before the first key of
\* both series.
C10_SumPointwise ==
    mcall.op = "sum" =>
        \A t \in 0..(MaxMTime + 1) :
            get(mcall.result, t) =
                IgnorantAdd(get(tsl[mcall.i], t), get(tsl[mcall.j], t))

\* the sum of two different series where one holds None while the other
\* holds a number, and compaction dropped a time of the inputs
C10_Witness ==
    /\ mcall.op = "sum"
    /\ mcall.i # mcall.j
    /\ \E t \in MTimes : /\ get(tsl[mcall.i], t) = None
                         /\ get(tsl[mcall.j], t) = 1
    /\ tsl[mcall.i].default # tsl[mcall.j].default
    /\ Len(mcall.result.d) <
          Cardinality(Keys(tsl[mcall.i].d) \cup Keys(tsl[mcall.j].d))

-----------------------------------------------------------------------------
(* The claims about distribution and mean.  Times being integers, a        *)
(* window [start, end) is the union of the unit cells [t, t + 1) for t in   *)
(* start..end-1, and a step function is constant on each cell.              *)

\* the mask is true at time t (everywhere, when no mask is given)
MaskTrue(mask, t) == mask = NoMask \/ StepValue(mask, t) = 1

\* the values a series of SpecDist takes: its measurements and its default
SeriesValues == DValues \cup Defaults

\* the sum of the step values of s over the given cells
RECURSIVE SumCells(_, _)
SumCells(s, cells) ==
    IF cells = {} THEN 0
    ELSE LET t == CHOOSE x \in cells : TRUE
         IN  StepValue(s, t) + SumCells(s, cells \ {t})

C9_MeanIsWeighted ==
    (/\ call.op = "mean"
     /\ call.start # None /\ call.end # None /\ call.start < call.end)
    => LET cells == {t \in call.start..(call.end - 1) :
                        StepValue(ts, t) # None}
       IN  /\ call.error = "none"
           /\ IF cells = {} THEN call.result = NoMean
              ELSE /\ call.result # NoMean
                   /\ call.result.d # 0
                   /\ call.result.n * Cardinality(cells) =
                          SumCells(ts, cells) * call.result.d

\* a mean over a window with a None period, a period of 0 and a period of 2
C9_Witness ==
    /\ call.op = "mean"
    /\ call.start # None /\ call.end # None /\ call.start < call.end
    /\ call.result # NoMean
    /\ \A v \in DValues :
           \E t \in call.start..(call.end - 1) : StepValue(ts, t) = v

-----------------------------------------------------------------------------
(* The claims about operation *)

\* C11: operation(other, fn) with a TimeSeries other returns a new series
\* whose stored keys are the union of the keys of self and other, with
\* fn(self.get(k), other.get(k)) at each key k; with a constant other the
\* keys are those of self and the value at k is fn(self[k], other).
C11_OperationKeysAndValues ==
    /\ call.op = "operation" =>
          LET r == call.result
          IN  /\ Keys(r.d) = Keys(ts.d) \cup Keys(call.other.d)
              /\ Len(r.d) = Cardinality(Keys(r.d))
              /\ r.default = call.default
              /\ \A k \in Keys(r.d) :
                    StepValue(r, k) =
                        apply(call.function, StepValue(ts, k),
                              StepValue(call.other, k))
    /\ call.op = "operation_scalar" =>
          LET r == call.result
          IN  /\ Keys(r.d) = Keys(ts.d)
              /\ Len(r.d) = Cardinality(Keys(r.d))
              /\ r.default = call.default
              /\ \A k \in Keys(r.d) :
                    StepValue(r, k) =
                        apply(call.function, StepValue(ts, k), call.other)

\* an operation whose other series has a key that self has not, and self a
\* key that other has not, the two series differing in truth at some key
C11_Witness ==
    /\ call.op = "operation"
    /\ Keys(call.other.d) \ Keys(ts.d) # {}
    /\ Keys(ts.d) \ Keys(call.other.d) # {}
    /\ \E k \in Keys(call.result.d) :
          Truthy(StepValue(ts, k)) # Truthy(StepValue(call.other, k))

-----------------------------------------------------------------------------
(* The claims about compact and set *)

\* no two adjacent stored entries carry equal values
Compacted(s) == \A i \in 1..(Len(s.d) - 1) : s.d[i][2] # s.d[i + 1][2]

\* C12: after compact() no two adjacent stored entries have equal values,
\* get(q) is what it was before the call for every q, and a second
\* compact() leaves the items unchanged.
C12_CompactKeepsFunction ==
    call.op = "compact" =>
        /\ Compacted(ts)
        /\ \A q \in QTimes : StepValue(ts, q) = StepValue(pre, q)
        /\ compact(ts).d = ts.d
        /\ Compacted(pre) => ts.d = pre.d

\* a compact() that deletes two measurements and keeps a first measurement
\* equal to the default
C12_Witness ==
    /\ call.op = "compact"
    /\ Len(pre.d) >= Len(ts.d) + 2
    /\ Len(ts.d) >= 2
    /\ ts.d[1][2] = ts.default

\* C13 as stated: for any sequence of (t, v) pairs, the series built by
\* plain set and then compact()-ed has the same items as the series built
\* by set(compact=True) in the same order.
C13_AnySequence ==
    mcall.op = "compact" => tsl[1].d = tsl[2].d

\* C13, amended: for any sequence of (t, v) pairs with strictly increasing
\* times, the series built by plain set and then compact()-ed has the same
\* items as the series built by set(compact=True) in the same order.
C13_IncreasingSequence ==
    (mcall.op = "compact" /\ mcall.increasing) => tsl[1].d = tsl[2].d

\* two series built in increasing time order where compact() deleted a
\* measurement and set(compact=True) skipped one
C13_Witness ==
    /\ mcall.op = "compact"
    /\ mcall.increasing
    /\ mcall.last = MaxMTime
    /\ Len(tsl[1].d) = 1
    /\ tsl[1].d = tsl[2].d

\* C14: for any series state, time t and value v, immediately after
\* set(t, v, compact), with compact False or True, get(t) = v.
C14_GetAfterSet ==
    call.op = "set" =>
        /\ get(ts, call.time) = call.value
        /\ StepValue(ts, call.time) = call.value

\* a set(compact=True) that stored nothing, at a time between two
\* measurements that is not a stored time
C14_Witness ==
    /\ call.op = "set"
    /\ call.compact
    /\ ts = pre
    /\ call.time \notin Keys(ts.d)
    /\ \E k \in Keys(ts.d) : k < call.time
    /\ \E k \in Keys(ts.d) : k > call.time

-----------------------------------------------------------------------------
(* The claims about del ts[start:end], slice and sample *)

\* C16: for start < end, remove_points_from_interval(start, end) deletes
\* exactly the stored keys k with start <= k < end, leaves every other
\* stored key and its value unchanged (a key equal to end included), and
\* succeeds without error when no stored key lies in the range.
C16_RemovesExactlyTheRange ==
    (call.op = "remove_points_from_interval" /\ call.start < call.end) =>
        /\ call.error = "none"
        /\ ts.d = SelectSeq(pre.d, LAMBDA item :
                       ~(call.start <= item[1] /\ item[1] < call.end))

\* C16 for a dictionary whose islice iterates over a copy of the keys
C16_RemovesExactlyTheRangeOfACopy ==
    (/\ call.op = "remove_points_from_interval"
     /\ call.start < call.end
     /\ ~call.live)
    => /\ call.error = "none"
       /\ ts.d = SelectSeq(pre.d, LAMBDA item :
                      ~(call.start <= item[1] /\ item[1] < call.end))

\* C17: for a series with a measurement and start < end, slice(start, end)
\* returns a new series whose first stored key is start and last stored key
\* is end, whose get(q) is the original's get(q) for every q in
\* [start, end]; the original's items are unchanged.
C17_SliceReproduces ==
    (call.op = "slice" /\ call.start < call.end /\ Len(pre.d) > 0) =>
        /\ call.error = "none"
        /\ Len(call.result.d) >= 2
        /\ first_key(call.result) = call.start
        /\ last_key(call.result) = call.end
        /\ \A q \in call.start..call.end :
              StepValue(call.result, q) = StepValue(pre, q)
        /\ call.result.default = pre.default
        /\ ts = pre

\* a slice whose window starts before the first measurement and ends on a
\* measurement, with a measurement inside
C17_Witness ==
    /\ call.op = "slice"
    /\ call.error = "none"
    /\ Len(pre.d) >= 2
    /\ call.start < pre.d[1][1]
    /\ call.end \in Keys(pre.d)
    /\ Len(call.result.d) >= 3
    /\ StepValue(pre, call.end) # StepValue(pre, call.end - 1)

\* the times start, start + period, ... that are <= end
SampleTimes(start, end, period) ==
    {t \in start..end : (t - start) % period = 0}

\* C18: for 0 < period <= end - start and no mask, sample(period, start,
\* end) returns, in increasing order, exactly the pairs (t, get(t)) for
\* t = start + i * period, i = 0, 1, 2, ..., for as long as t <= end.
C18_SampleGrid ==
    (/\ call.op = "sample"
     /\ call.start # None /\ call.end # None
     /\ 0 < call.sampling_period
     /\ call.sampling_period <= call.end - call.start)
    => /\ call.error = "none"
       /\ Len(call.result) = Cardinality(SampleTimes(call.start, call.end,
                                                      call.sampling_period))
       /\ \A i \in 1..Len(call.result) :
             /\ call.result[i][1] = call.start + (i - 1) * call.sampling_period
             /\ call.result[i][1] <= call.end
             /\ call.result[i][2] = StepValue(ts, call.result[i][1])

\* a sample of three times that ends exactly on end, over a series that
\* changes value inside the window
C18_Witness ==
    /\ call.op = "sample"
    /\ call.start # None /\ call.end # None
    /\ call.error = "none"
    /\ Len(call.result) >= 3
    /\ call.result[Len(call.result)][1] = call.end
    /\ call.result[1][2] # call.result[2][2]

\* C19: when a mask M (with a measurement) is passed to sample(period,
\* start, end, mask=M), every emitted time lies in a sub-interval of
\* [start, end] on which M is true, and no time at which M is false is
\* emitted.
C19_SampleWithinMask ==
    (call.op = "sample" /\ call.error = "none" /\ Len(call.mask.d) > 0) =>
        \A i \in 1..Len(call.result) :
            Truthy(StepValue(call.mask, call.result[i][1]))

\* the greatest and the least of a non-empty set of numbers
MaxOf(S) == CHOOSE x \in S : \A y \in S : y <= x

MinOf(S) == CHOOSE x \in S : \A y \in S : x <= y

\* C20: for every interval [t_i, t_{i+1}) produced by sample_interval with
\* operation 'max' (resp. 'min'), the reported value is the maximum (resp.
\* minimum) of the values the step function takes at times inside the
\* interval, wherever the measurements lie, a measurement at an interval
\* boundary t_i included.
C20_IntervalExtremum ==
    (call.op = "sample_interval" /\ call.error = "none") =>
        \A i \in 1..Len(call.result) :
            LET t_i    == call.result[i][1]
                levels == {StepValue(ts, t) :
                              t \in t_i..(t_i + call.sampling_period - 1)}
            IN  call.result[i][2] = IF call.operation = "max"
                                    THEN MaxOf(levels) ELSE MinOf(levels)

\* C20 for the series with no measurement at the start of a later interval
C20_IntervalExtremumOffBoundary ==
    (/\ call.op = "sample_interval"
     /\ call.error = "none"
     /\ \A i \in 2..Len(call.result) : call.result[i][1] \notin Keys(ts.d))
    => \A i \in 1..Len(call.result) :
           LET t_i    == call.result[i][1]
               levels == {StepValue(ts, t) :
                             t \in t_i..(t_i + call.sampling_period - 1)}
           IN  call.result[i][2] = IF call.operation = "max"
                                   THEN MaxOf(levels) ELSE MinOf(levels)

-----------------------------------------------------------------------------
(* The claims about EventSeries *)

\* the number of events of the series at or before t
EventsUntil(es, t) == Cardinality({i \in 1..Len(es) : es[i] <= t})

\* C21: count_active(opens, closes).get(t) is the number of opens at or
\* before t minus the number of closes at or before t, for every t; the
\* default of the result, returned before the first event, is 0.
C21_CountActive ==
    ecall.op = "count_active" =>
        /\ ecall.result.default = 0
        /\ \A t \in EQTimes :
              get(ecall.result, t) =
                  EventsUntil(es_open, t) - EventsUntil(es_closed, t)

\* C21 from the first event of either series on: there the count is the
\* number of opens minus the number of closes
C21_CountActiveFromFirstEvent ==
    ecall.op = "count_active" =>
        \A t \in EQTimes :
            (\E i \in 1..Len(es_open \o es_closed) :
                 (es_open \o es_closed)[i] <= t) =>
                get(ecall.result, t) =
                    EventsUntil(es_open, t) - EventsUntil(es_closed, t)

-----------------------------------------------------------------------------
\* C22: cumulative_sum() of events inserted in any order has default 0, its
\* stored keys are the distinct event times, its value at a key t is the
\* number of events at or before t; so the values never decrease and the
\* last one is the number of events.
C22_CumulativeSum ==
    ecall.op = "cumulative_sum" =>
        LET r == ecall.result
        IN  /\ r.default = 0
            /\ Keys(r.d) = {es_open[i] : i \in 1..Len(es_open)}
            /\ Len(r.d) = Cardinality(Keys(r.d))
            /\ \A i \in 1..Len(r.d) :
                  r.d[i][2] = EventsUntil(es_open, r.d[i][1])
            /\ \A i \in 1..(Len(r.d) - 1) : r.d[i][2] <= r.d[i + 1][2]
            /\ Len(r.d) > 0 => r.d[Len(r.d)][2] = Len(es_open)

\* a cumulative sum of three events, two of them at the same time
C22_Witness ==
    /\ ecall.op = "cumulative_sum"
    /\ Len(es_open) = 3
    /\ Len(ecall.result.d) = 2

-----------------------------------------------------------------------------
(* The claim about the logical operations *)

\* the logical combination of two truth values, as the boolean 0 or 1
Logical(function, a, b) ==
    LET r == CASE function = "logical_and" -> a /\ b
               [] function = "logical_or"  -> a \/ b
               [] function = "logical_xor" -> a # b
    IN  IF r THEN 1 ELSE 0

\* C23: logical_and, logical_or and logical_xor of two series with any
\* values, None included, return a series whose every stored value is a
\* boolean: the logical combination of the truthiness of the two operands.
C23_LogicalValuesAreBooleans ==
    (call.op = "operation" /\ call.function \in Functions) =>
        \A i \in 1..Len(call.result.d) :
            LET k == call.result.d[i][1]
            IN  call.result.d[i][2] =
                    Logical(call.function, Truthy(StepValue(ts, k)),
                            Truthy(StepValue(call.other, k)))

\* C23 up to truthiness: the truthiness of every stored value is the
\* logical combination of the truthiness of the two operands
C23_LogicalTruthiness ==
    (call.op = "operation" /\ call.function \in Functions) =>
        \A i \in 1..Len(call.result.d) :
            LET k == call.result.d[i][1]
            IN  (IF Truthy(call.result.d[i][2]) THEN 1 ELSE 0) =
                    Logical(call.function, Truthy(StepValue(ts, k)),
                            Truthy(StepValue(call.other, k)))

-----------------------------------------------------------------------------
(* The claims about Histogram *)

\* the keys of the histogram that are not None and have a weight > 0
Observed == {k \in histogram_keys(hist) :
                k # None /\ histogram_getitem(hist, k) > 0}

\* C24: min() is the smallest and max() the largest key among those that
\* are not None and have a weight > 0, also for a histogram ordered by hash;
\* a key of weight 0 and the key None are not returned while a key that is
\* not None has a weight > 0.
C24_MinMaxObserved ==
    /\ (ecall.op = "min" /\ Observed # {}) => ecall.result = MinOf(Observed)
    /\ (ecall.op = "max" /\ Observed # {}) => ecall.result = MaxOf(Observed)

\* C24 for a histogram in which the key None, if there, has weight 0
C24_MinMaxObservedNoneUnweighted ==
    histogram_getitem(hist, None) = 0 =>
        /\ (ecall.op = "min" /\ Observed # {}) =>
              ecall.result = MinOf(Observed)
        /\ (ecall.op = "max" /\ Observed # {}) =>
              ecall.result = MaxOf(Observed)

-----------------------------------------------------------------------------
\* the weight of the keys below k and of the keys up to k, None apart
WeightBelow(k) ==
    sum_values(SelectSeq(histogram_discard_value(hist, None).items,
                         LAMBDA item : item[1] < k))

WeightUpTo(k) == WeightBelow(k) + histogram_getitem(hist, k)

\* every stored weight is positive and some key is not None
PositiveWeights ==
    /\ \A i \in 1..Len(hist.items) : hist.items[i][2] > 0
    /\ histogram_keys(hist) \ {None} # {}

\* C25: with positive weights and alpha = 0, quantile(q) is the key k for
\* WeightBelow(k) / total < q < WeightUpTo(k) / total, and the mean of two
\* consecutive keys for q at the cumulative boundary between them.
C25_EmpiricalInverse ==
    (ecall.op = "quantile" /\ ecall.alpha = frac(0, 1)
         /\ ecall.error = "none" /\ PositiveWeights) =>
        LET keys   == histogram_keys(hist) \ {None}
            total_ == WeightUpTo(MaxOf(keys))
        IN  \A k \in keys :
              /\ (/\ WeightBelow(k) * ecall.q.d < ecall.q.n * total_
                  /\ ecall.q.n * total_ < WeightUpTo(k) * ecall.q.d) =>
                    ecall.value = to_float(k)
              /\ (/\ WeightUpTo(k) * ecall.q.d = ecall.q.n * total_
                  /\ k # MaxOf(keys)) =>
                    ecall.value =
                        frac(k + MinOf({j \in keys : j > k}), 2)

\* a quantile with alpha = 0 at the boundary between two keys of positive
\* weight, the total weight being three
C25_Witness ==
    /\ ecall.op = "quantile"
    /\ ecall.alpha = frac(0, 1)
    /\ PositiveWeights
    /\ Cardinality(histogram_keys(hist) \ {None}) >= 2
    /\ histogram_total(histogram_discard_value(hist, None)) = 3
    /\ ecall.q = frac(1, 3)
    /\ ecall.value.d = 2

-----------------------------------------------------------------------------
\* C29: for a histogram with a key that is not None of positive weight,
\* any alpha >= 0 and 0 <= q <= 1, min() <= quantile(q, alpha) <= max(), and
\* q1 <= q2 implies quantile(q1, alpha) <= quantile(q2, alpha).
C29_QuantileBoundedMonotone ==
    (Observed # {} /\ None \notin histogram_keys(hist)) =>
        /\ (ecall.op = "quantile" /\ ecall.error = "none") =>
              /\ ~frac_lt(ecall.value, to_float(histogram_min(hist)))
              /\ ~frac_lt(to_float(histogram_max(hist)), ecall.value)
        /\ ecall.op = "quantiles" =>
              ~frac_lt(ecall.result[2], ecall.result[1])

\* C29 for positive weights, 0 < alpha <= 1, or alpha = 0 and q > 0
C29_QuantileBoundedMonotoneInside ==
    (PositiveWeights /\ None \notin histogram_keys(hist)) =>
        /\ (/\ ecall.op = "quantile"
            /\ ecall.error = "none"
            /\ ~frac_lt(to_float(1), ecall.alpha)
            /\ (ecall.alpha = frac(0, 1) => ecall.q # frac(0, 1))) =>
              /\ ~frac_lt(ecall.value, to_float(histogram_min(hist)))
              /\ ~frac_lt(to_float(histogram_max(hist)), ecall.value)
        /\ (/\ ecall.op = "quantiles"
            /\ ~frac_lt(to_float(1), ecall.alpha)
            /\ (ecall.alpha = frac(0, 1) => ecall.q1 # frac(0, 1))) =>
              ~frac_lt(ecall.result[2], ecall.result[1])

-----------------------------------------------------------------------------
(* The claim about the resolution of a window *)

\* the call has run its boundary check: distribution and mean at the call,
\* the generator iterperiods at its first next()
Resolved ==
    \/ call.op \in {"distribution", "mean"}
    \/ call.op = "iterperiods" /\ call.state # "created"

\* C26: window resolution fails instead of returning a result:
\* distribution, mean and iterperiods on an empty series with no start, no
\* end and no mask raise KeyError; a call with start >= end raises
\* ValueError; a call with an empty mask raises ValueError; and the lazy
\* iterperiods raises when its first element is asked for, not before.
C26_WindowErrors ==
    /\ (/\ Resolved
        /\ Len(ts.d) = 0
        /\ call.start = None /\ call.end = None /\ call.mask = NoMask) =>
          call.error = "KeyError"
    /\ (/\ Resolved
        /\ call.start # None /\ call.end # None
        /\ call.start >= call.end) =>
          call.error = "ValueError"
    /\ (/\ Resolved
        /\ Len(ts.d) > 0
        /\ call.start # None \/ call.end # None \/ call.mask = NoMask
        /\ (IF call.start = None THEN first_key(ts) ELSE call.start)
              >= (IF call.end = None THEN last_key(ts) ELSE call.end)) =>
          call.error = "ValueError"
    /\ (/\ Resolved
        /\ call.start = None /\ call.end = None
        /\ call.mask # NoMask /\ Len(call.mask.d) = 1) =>
          call.error = "ValueError"
    /\ (Resolved /\ call.mask # NoMask /\ Len(call.mask.d) = 0) =>
          call.error = "ValueError"
    /\ (call.op = "iterperiods" /\ call.state = "created") =>
          call.error = "none"
    /\ (call.op = "iterperiods" /\ call.state \in {"yielded", "exhausted"}) =>
          ~(\/ Len(ts.d) = 0 /\ call.start = None /\ call.end = None
            \/ call.start # None /\ call.end # None
                  /\ call.start >= call.end)

\* the first next() of iterperiods(2, 1) on a series with a measurement
\* has raised ValueError
C26_Witness ==
    /\ call.op = "iterperiods"
    /\ call.state = "raised"
    /\ call.error = "ValueError"
    /\ call.start = 2 /\ call.end = 1
    /\ Len(ts.d) > 0

-----------------------------------------------------------------------------
(* The claim about traces.sorted_dict.SortedDict *)

\* keys() is in the order of the key function, holds no key twice, and
\* holds the keys of the dict and no other
KeysAgree ==
    /\ \A i \in 1..Len(sdict.keys), j \in 1..Len(sdict.keys) :
          i < j => /\ sort_key(sdict, sdict.keys[i])
                         <= sort_key(sdict, sdict.keys[j])
                   /\ sdict.keys[i] # sdict.keys[j]
    /\ {sdict.keys[i] : i \in 1..Len(sdict.keys)}
          = {sdict.dict[i][1] : i \in 1..Len(sdict.dict)}

\* C27: after any sequence of __setitem__, __delitem__, update and
\* delete_range on a SortedDict built with or without a key function, also
\* one under which two distinct keys compare equal, keys() is sorted, has
\* no duplicates and holds exactly the keys of the underlying dict.
C27_KeysAgree == KeysAgree

\* C27 for a SortedDict without a key function
C27_KeysAgreeWithoutKeyFunction == sdict.key = "none" => KeysAgree

-----------------------------------------------------------------------------
(* The claim about merge with and without compact *)

\* C28: merge(list, compact=True, operation=op) and merge(list,
\* compact=False, operation=op) are the same step function (equal default,
\* equal get(q) for every q), and the compact=True result has no two
\* adjacent stored entries with equal values.
C28_MergeCompactSameFunction ==
    mcall.op = "merge_both" =>
        /\ mcall.compacted.default = mcall.plain.default
        /\ \A q \in 0..(MaxMTime + 1) :
              get(mcall.compacted, q) = get(mcall.plain, q)
        /\ Compacted(mcall.compacted)

\* a merge of two series whose plain result stores a value twice in a row,
\* so that the compacted result has fewer entries
C28_Witness ==
    /\ mcall.op = "merge_both"
    /\ Len(tsl) = 2
    /\ ~Compacted(mcall.plain)
    /\ Len(mcall.compacted.d) < Len(mcall.plain.d)
    /\ Len(mcall.compacted.d) >= 1

-----------------------------------------------------------------------------
(* The claim about the equality of two series *)

\* the two series store the same times with the same values
SameItems(a, b) ==
    /\ Keys(a.d) = Keys(b.d)
    /\ \A k \in Keys(a.d) : StepValue(a, k) = StepValue(b, k)

\* C30: == depends on the stored items only: two series are equal exactly
\* when their (time, value) items are equal, whatever their defaults; two
\* series with the same items and different defaults, which differ in
\* get(q) before the first key, compare equal.
C30_EqualityIgnoresDefault ==
    mcall.op = "eq" =>
        LET a == tsl[mcall.i]
            b == tsl[mcall.j]
        IN  /\ mcall.result = SameItems(a, b)
            /\ (SameItems(a, b) /\ a.default # b.default) =>
                  /\ mcall.result
                  /\ get(a, 0) # get(b, 0)

\* two series with the same measurement and different defaults compared,
\* and found equal
C30_Witness ==
    /\ mcall.op = "eq"
    /\ mcall.i # mcall.j
    /\ Len(tsl[mcall.i].d) > 0
    /\ tsl[mcall.i].d = tsl[mcall.j].d
    /\ tsl[mcall.i].default # tsl[mcall.j].default
    /\ mcall.result

====
